---- MODULE Spec2Model ----
(***************************************************************************)
(* Semantic analysis of VHDL design units (vhdl_parser/src/semantic.rs):   *)
(* the Analyzer, its AnalysisContext (memoization cache and lock set) and  *)
(* the DeclarativeRegion it fills.  The analyzer is a depth-first          *)
(* recursive program; it is modelled as a machine with an explicit call    *)
(* stack, one frame per active call of a function that can (transitively)  *)
(* demand the region of another package.                                   *)
(***************************************************************************)
EXTENDS Integers, Sequences, FiniteSets, TLC

(***************************************************************************)
(* Bounds of the model.                                                    *)
(***************************************************************************)
\* Longest declarative part of a package that has no body.
MaxDecls == 3
\* Longest declarative part of a package declaration / package body pair.
MaxPairDecls == 2
\* Call-stack depth at which the model reports a stack overflow.
MaxDepth == 24
MaxItems == 2

(***************************************************************************)
(* Option<T>: None is the empty sequence, Some(x) a one-element sequence.  *)
(***************************************************************************)
None == <<>>
Some(x) == <<x>>
IsSome(o) == Len(o) = 1
IsNone(o) == Len(o) = 0

EmptyMap == [x \in {} |-> x]

\* f with key k bound to v (insert or overwrite)
MapPut(f, k, v) == [x \in (DOMAIN f) \cup {k} |-> IF x = k THEN v ELSE f[x]]

RECURSIVE SeqOfSet(_)
SeqOfSet(S) == IF S = {} THEN <<>>
               ELSE LET x == CHOOSE y \in S : TRUE
                    IN <<x>> \o SeqOfSet(S \ {x})

\* Sequences over S of length lo..hi
SeqsUpTo(S, lo, hi) == UNION {[1..n -> S] : n \in lo..hi}

(***************************************************************************)
(* Source positions and diagnostics.                                       *)
(* A position names a place of a design unit: the unit, the part of it     *)
(* (identifier, context clause, declarative part, body ...), the item and  *)
(* the name within the item, and the part of the name (sub: 2*d is the     *)
(* whole name at prefix depth d, 2*d+1 its suffix).                        *)
(***************************************************************************)
Pos(lib, unit, part, i, j, sub) ==
    [lib |-> lib, unit |-> unit, part |-> part, i |-> i, j |-> j, sub |-> sub]

Message(sev, pos, msg, arg, related) ==
    [sev |-> sev, pos |-> pos, msg |-> msg, arg |-> arg, related |-> related]

Error(pos, msg, arg) == Message("error", pos, msg, arg, None)
Hint(pos, msg, arg) == Message("hint", pos, msg, arg, None)

MsgDuplicate == "Duplicate declaration of"
MsgDeferredOutside == "Deferred constants are only allowed in package declarations (not body)"
MsgFullInDecl == "Full declaration of deferred constant is only allowed in a package body"
MsgLacksFull == "Deferred constant lacks corresponding full constant declaration in package body"
MsgMissingBody == "Missing body for protected type"
MsgNoProtected == "No declaration of protected type"
MsgMissingFullType == "Missing full type declaration of incomplete type"
MsgHintFullType == "The full type declaration shall occur immediately within the same declarative part"
MsgNoDecl == "No declaration of"
MsgNoPrimary == "No primary unit within"
MsgNoDeclWithin == "No declaration within package"
MsgCircularUsing == "Found circular dependencies when using package"
MsgCircularAnalyzing == "Found circular dependency when analyzing"
MsgAllPrefix == "'.all' may not be the prefix of a selected name"
MsgUseSelected == "Use clause must be a selected name"
MsgCtxSelected == "Context reference must be a selected name"
MsgNotContext == "does not denote a context declaration"
MsgNoLibrary == "No such library"
MsgWorkHint == "Library clause not necessary for current working library"

(***************************************************************************)
(* Names (ast::Name) as far as the resolver distinguishes them.            *)
(***************************************************************************)
Designator(d) == [k |-> "Designator", d |-> d]
Selected(p, s) == [k |-> "Selected", prefix |-> p, suffix |-> s]
SelectedAll(p) == [k |-> "SelectedAll", prefix |-> p]
OtherName == [k |-> "Other"]

(***************************************************************************)
(* Declarations of a declarative part (ast::Declaration).                  *)
(*   kind: "Object" | "Type" | "SubprogramDeclaration" | "SubprogramBody"  *)
(*         | "Alias" | "File" | "Component" | "Attribute" | "Package"      *)
(*         | "Use"                                                         *)
(*   def : for Object "deferred" (constant without initializer) or "full"  *)
(*         (constant with initializer) or "signal"; for Type "Incomplete", *)
(*         "Protected", "ProtectedBody", "Record", "Enumeration";          *)
(*         for Alias "signature" or "plain"                                *)
(*   lists: the interface and element lists of the declaration, each the   *)
(*         sequence of its names: the parameter list of a subprogram, the  *)
(*         generic and the port list of a component, the element list of   *)
(*         a record, the parameter lists of the subprograms of a protected *)
(*         type                                                            *)
(*   decls: the declarative part of a subprogram body or protected body    *)
(***************************************************************************)
ListDecl(kind, ident, def, lists, decls) ==
    [kind |-> kind, ident |-> ident, def |-> def, lits |-> <<>>, names |-> <<>>,
     lists |-> lists, decls |-> decls]
Decl(kind, ident, def) == ListDecl(kind, ident, def, <<>>, <<>>)
EnumDecl(ident, lits) == [Decl("Type", ident, "Enumeration") EXCEPT !.lits = lits]
UseDecl(names) == [Decl("Use", "", "") EXCEPT !.names = names]

(***************************************************************************)
(* VisibleDeclaration and AnyDeclaration (declarative_region).             *)
(* class is what the region reads from the declaration it refers to:       *)
(* "DeferredConstant", "FullConstant", "IncompleteType", "ProtectedType",  *)
(* "ProtectedBody", "FullType" or "Other".                                 *)
(***************************************************************************)
AnyDeclaration(k, lib, unit, class) ==
    [k |-> k, lib |-> lib, unit |-> unit, class |-> class]

VisibleDeclaration(designator, decl, decl_pos, may_overload) ==
    [designator |-> designator, decl |-> decl, decl_pos |-> decl_pos,
     may_overload |-> may_overload]

DeclClass(d) ==
    CASE d.kind = "Object" /\ d.def = "deferred" -> "DeferredConstant"
      [] d.kind = "Object" /\ d.def = "full" -> "FullConstant"
      [] d.kind = "Type" /\ d.def = "Incomplete" -> "IncompleteType"
      [] d.kind = "Type" /\ d.def = "Protected" -> "ProtectedType"
      [] d.kind = "Type" /\ d.def = "ProtectedBody" -> "ProtectedBody"
      [] d.kind = "Type" -> "FullType"
      [] OTHER -> "Other"

NoPos == Pos("", "", "none", 0, 0, 0)
PosOf(opt) == IF IsSome(opt) THEN opt[1] ELSE NoPos

(***************************************************************************)
(* DeclarativeRegion.                                                      *)
(*   imm    : Designator -> sequence of VisibleDeclarations (one binding,  *)
(*            or the members of an overload set in insertion order)        *)
(*   vis    : Designator -> sequence of potentially visible declarations   *)
(*   parent : Option<DeclarativeRegion>                                    *)
(*   kind   : "package_declaration" or "other"                             *)
(*   obl    : the deferred obligations: records [k, d, pos] with k one of  *)
(*            "deferred", "protected", "incomplete"                        *)
(* into_owned_parent changes ownership of the ancestor chain only; the     *)
(* value of a region is the same before and after it.                      *)
(***************************************************************************)
NewRegion(parent) ==
    [imm |-> EmptyMap, vis |-> EmptyMap, parent |-> parent, kind |-> "other", obl |-> {}]

in_package_declaration(r) == [r EXCEPT !.kind = "package_declaration"]

RECURSIVE lookup(_, _)
lookup(r, d) ==
    IF d \in DOMAIN r.imm THEN Some(r.imm[d])
    ELSE IF d \in DOMAIN r.vis THEN Some(r.vis[d])
    ELSE IF IsSome(r.parent) THEN lookup(r.parent[1], d)
    ELSE None

\* The declaration a resolver reads from a lookup result.
TheDecl(entry) == entry[1]

OblOf(vd) ==
    CASE vd.decl.class = "DeferredConstant" ->
            {[k |-> "deferred", d |-> vd.designator, pos |-> vd.decl_pos]}
      [] vd.decl.class = "ProtectedType" ->
            {[k |-> "protected", d |-> vd.designator, pos |-> vd.decl_pos]}
      [] vd.decl.class = "IncompleteType" ->
            {[k |-> "incomplete", d |-> vd.designator, pos |-> vd.decl_pos]}
      [] OTHER -> {}

\* vd becomes the binding of its designator; the obligation of the binding it
\* replaces (if any) is discharged and its own obligation is recorded.
Bind(r, vd) ==
    [r EXCEPT !.imm = MapPut(@, vd.designator, <<vd>>),
              !.obl = {o \in @ : o.d # vd.designator} \cup OblOf(vd)]

AllOverloadable(entry) == \A i \in 1..Len(entry) : entry[i].may_overload

\* The result of an operation on a region: the region and the diagnostics.
Res(r, msgs) == [region |-> r, msgs |-> msgs]

\* An add that puts every declaration into the entry of its designator
add_unchecked(r, vd) ==
    LET d == vd.designator
        prev == IF d \in DOMAIN r.imm THEN r.imm[d] ELSE <<>>
    IN Res([r EXCEPT !.imm = MapPut(@, d, Append(prev, vd))], <<>>)

add(r, vd) ==
    LET d == vd.designator
        cls == vd.decl.class
        at == PosOf(vd.decl_pos)
        misplaced == IF cls = "DeferredConstant" /\ r.kind # "package_declaration"
                     THEN <<Error(at, MsgDeferredOutside, d)>>
                     ELSE <<>>
    IN  IF d \notin DOMAIN r.imm
        THEN IF cls = "ProtectedBody"
             THEN Res(r, misplaced \o <<Error(at, MsgNoProtected, d)>>)
             ELSE Res(Bind(r, vd), misplaced)
        ELSE LET prev == r.imm[d]
                 pcls == prev[1].decl.class
             IN  CASE pcls = "IncompleteType" /\ cls \in {"FullType", "ProtectedType"} ->
                        Res(Bind(r, vd), misplaced)
                   [] pcls = "DeferredConstant" /\ cls = "FullConstant" ->
                        Res(Bind(r, vd),
                            IF r.kind = "package_declaration"
                            THEN <<Error(at, MsgFullInDecl, d)>>
                            ELSE <<>>)
                   [] pcls = "ProtectedType" /\ cls = "ProtectedBody" ->
                        Res(Bind(r, vd), misplaced)
                   [] OTHER ->
                        IF vd.may_overload /\ AllOverloadable(prev)
                        THEN Res([r EXCEPT !.imm = MapPut(@, d, Append(prev, vd))],
                                 misplaced)
                        ELSE Res(r, misplaced \o
                                    <<Message("error", at, MsgDuplicate, d,
                                              prev[1].decl_pos)>>)

\* add for every member of a sequence of VisibleDeclarations, in order
RECURSIVE add_all(_, _)
add_all(r, vds) ==
    IF vds = <<>> THEN Res(r, <<>>)
    ELSE LET one == add(r, Head(vds))
             rest == add_all(one.region, Tail(vds))
         IN Res(rest.region, one.msgs \o rest.msgs)

make_library_visible(r, name, lib) ==
    [r EXCEPT !.imm = MapPut(@, name,
        <<VisibleDeclaration(name, AnyDeclaration("Library", lib, "", "Other"),
                             None, FALSE)>>)]

make_potentially_visible(r, vd) ==
    LET d == vd.designator
        old == IF d \in DOMAIN r.vis THEN r.vis[d] ELSE <<>>
    IN  IF \E i \in 1..Len(old) : old[i] = vd THEN r
        ELSE [r EXCEPT !.vis = MapPut(@, d, Append(old, vd))]

RECURSIVE make_visible_all(_, _)
make_visible_all(r, vds) ==
    IF vds = <<>> THEN r
    ELSE make_visible_all(make_potentially_visible(r, Head(vds)), Tail(vds))

RECURSIVE Flatten(_)
Flatten(ss) == IF ss = <<>> THEN <<>> ELSE Head(ss) \o Flatten(Tail(ss))

\* every immediate binding of a region, designator by designator
ImmediateDecls(r) ==
    LET ds == SeqOfSet(DOMAIN r.imm)
    IN Flatten([i \in 1..Len(ds) |-> r.imm[ds[i]]])

make_all_potentially_visible(r, other) == make_visible_all(r, ImmediateDecls(other))

CloseMsgs(o) ==
    CASE o.k = "incomplete" ->
            <<Error(PosOf(o.pos), MsgMissingFullType, o.d),
              Hint(PosOf(o.pos), MsgHintFullType, o.d)>>
      [] o.k = "protected" -> <<Error(PosOf(o.pos), MsgMissingBody, o.d)>>
      [] o.k = "deferred" -> <<Error(PosOf(o.pos), MsgLacksFull, o.d)>>

\* report the obligations of the kinds ks and drop them from the region
CloseKinds(r, ks) ==
    LET due == SeqOfSet({o \in r.obl : o.k \in ks})
    IN Res([r EXCEPT !.obl = {o \in @ : o.k \notin ks}],
           Flatten([i \in 1..Len(due) |-> CloseMsgs(due[i])]))

close_immediate(r) == CloseKinds(r, {"incomplete", "protected"})

close_both(r) ==
    LET a == close_immediate(r)
        b == CloseKinds(a.region, {"deferred"})
    IN Res(b.region, a.msgs \o b.msgs)

clone_parent(r) == r.parent

\* add for every name of an interface list (generics, ports), in order
add_interface_list(r, idents, lib, unit, part) ==
    add_all(r, [n \in 1..Len(idents) |->
                  VisibleDeclaration(idents[n],
                      AnyDeclaration("Declaration", "", "", "Other"),
                      Some(Pos(lib, unit, part, n, 0, 0)), FALSE)])

into_extended(r, root) == [r EXCEPT !.parent = Some(root), !.kind = "other"]

(***************************************************************************)
(* The design root (library::DesignRoot): a sequence of libraries in       *)
(* iteration order, each with its packages (declaration plus optional      *)
(* body), context declarations and package instances in iteration order.   *)
(***************************************************************************)
LibraryClause(libs) == [k |-> "Library", libs |-> libs, names |-> <<>>]
UseClause(names) == [k |-> "Use", libs |-> <<>>, names |-> names]
ContextReference(names) == [k |-> "Context", libs |-> <<>>, names |-> names]

PackageDesignUnit(name, ctx, generics, decl, hasBody, bodyCtx, bodyDecl) ==
    [name |-> name, ctx |-> ctx, generics |-> generics, decl |-> decl,
     hasBody |-> hasBody, bodyCtx |-> bodyCtx, bodyDecl |-> bodyDecl]

ContextDeclaration(name, items) == [name |-> name, items |-> items]
PackageInstance(name, ctx) == [name |-> name, ctx |-> ctx]

\* A concurrent statement: kind "Block" or "Process" (anything else has no
\* declarative part), its declarations and, for a block, its statements
Statement(kind, decl, statements) ==
    [kind |-> kind, decl |-> decl, statements |-> statements]

ArchitectureBody(name, ctx, decl, statements) ==
    [name |-> name, ctx |-> ctx, decl |-> decl, statements |-> statements]

\* An entity declaration with its architectures in iteration order
EntityDesignUnit(name, ctx, generics, ports, decl, architectures) ==
    [name |-> name, ctx |-> ctx, generics |-> generics, ports |-> ports,
     decl |-> decl, statements |-> <<>>, architectures |-> architectures]

LibraryOf(name, packages, contexts, instances, entities) ==
    [name |-> name, packages |-> packages, contexts |-> contexts,
     instances |-> instances, entities |-> entities]

Library(name, packages, contexts, instances) ==
    LibraryOf(name, packages, contexts, instances, <<>>)

VARIABLES
    root,       \* the design root under analysis
    stack,      \* the call stack, innermost frame last
    ret,        \* the value returned by the call that returned last
    cache,      \* AnalysisContext.primary_unit_data: key -> Option<region>
    locked,     \* AnalysisContext.locked
    messages,   \* the diagnostics given to the caller of analyze
    ignored,    \* the diagnostics pushed to disposable sinks so far
    trace,      \* history of lock attempts and top-level visits
    pc,         \* "running", "done", "overflow" (stack exhausted) or "panic"
    silent,     \* VHDLServerSettings.silent, copied into each MessageFilter
    rpc,        \* the notifications sent on the server's RPC channel, in order
    pushed,     \* history of the messages pushed to the MessageFilter
    earlier     \* the diagnostics of an earlier run over the same libraries, if any

vars == <<root, stack, ret, cache, locked, messages, ignored, trace, pc,
          silent, rpc, pushed, earlier>>

work_sym == "work"
std_sym == "std"
standard_designator == "standard"

LibNames == {root[i].name : i \in 1..Len(root)}

\* DesignRoot::get_library
get_library(name) ==
    IF name \in LibNames
    THEN Some(root[CHOOSE i \in 1..Len(root) : root[i].name = name])
    ELSE None

TheLibrary(name) == get_library(name)[1]

ThePackage(lib, unit) ==
    LET ps == TheLibrary(lib).packages
    IN ps[CHOOSE i \in 1..Len(ps) : ps[i].name = unit]

TheEntity(lib, unit) ==
    LET es == TheLibrary(lib).entities
    IN es[CHOOSE i \in 1..Len(es) : es[i].name = unit]

TheContext(lib, unit) ==
    LET cs == TheLibrary(lib).contexts
    IN cs[CHOOSE i \in 1..Len(cs) : cs[i].name = unit]

\* Analyzer::new: the flat region of a library's primary units
library_regions(lib) ==
    LET l == TheLibrary(lib)
        pk == [i \in 1..Len(l.packages) |->
                 VisibleDeclaration(l.packages[i].name,
                     AnyDeclaration("Package", lib, l.packages[i].name, "Other"),
                     Some(Pos(lib, l.packages[i].name, "ident", 0, 0, 0)), FALSE)]
        cx == [i \in 1..Len(l.contexts) |->
                 VisibleDeclaration(l.contexts[i].name,
                     AnyDeclaration("Context", lib, l.contexts[i].name, "Other"),
                     Some(Pos(lib, l.contexts[i].name, "ident", 0, 0, 0)), FALSE)]
        en == [i \in 1..Len(l.entities) |->
                 VisibleDeclaration(l.entities[i].name,
                     AnyDeclaration("Entity", lib, l.entities[i].name, "Other"),
                     Some(Pos(lib, l.entities[i].name, "ident", 0, 0, 0)), FALSE)]
        pi == [i \in 1..Len(l.instances) |->
                 VisibleDeclaration(l.instances[i].name,
                     AnyDeclaration("PackageInstance", lib, l.instances[i].name, "Other"),
                     Some(Pos(lib, l.instances[i].name, "ident", 0, 0, 0)), FALSE)]
    IN add_all(NewRegion(None), pk \o cx \o en \o pi).region

(***************************************************************************)
(* AnalysisContext.                                                        *)
(***************************************************************************)
Key(lib, unit) == <<lib, unit>>

\* A lock on the whole context: it fails while any key is held
lock_ok_exclusive(l, key) == l = {}

\* AnalysisContext::lock: TRUE when the key was acquired
lock_ok(l, key) == key \notin l

\* A lock whose failed attempt gives the key up
lock_releasing(l, key) == IF key \in l THEN l \ {key} ELSE l \cup {key}

\* the insert of AnalysisContext::lock, made whether or not the key was there
lock(l, key) == l \cup {key}

\* A guard whose drop leaves the key in the lock set
LockGuard_drop_leaks(l, key) == l

\* Drop for LockGuard
LockGuard_drop(l, key) == l \ {key}

\* AnalysisContext::get_region
get_region(c, key) == IF key \in DOMAIN c THEN c[key] ELSE None

\* A cache in which the last write wins
set_region_overwrites(c, key, region) == MapPut(c, key, region)

\* AnalysisContext::set_region
set_region(c, key, region) == IF key \in DOMAIN c THEN c ELSE MapPut(c, key, region)

(***************************************************************************)
(* The call stack.  A frame is one active call: fn names the function, pc  *)
(* the place in its body where it continues, the other fields are its      *)
(* parameters and locals.  `out` tells whether the call's `messages`       *)
(* parameter is the caller's output (TRUE) or a disposable sink (FALSE).   *)
(* A step of the machine is described by an effect: the frames that        *)
(* replace the innermost frame (none: the call returns; one: it goes on;   *)
(* two: it calls), the returned value, the new cache and lock set, the     *)
(* diagnostics pushed and the events recorded.                             *)
(***************************************************************************)
Top == stack[Len(stack)]
Rest == SubSeq(stack, 1, Len(stack) - 1)

Keep == [frames |-> <<>>, ret |-> ret, cache |-> cache, locked |-> locked,
         emit |-> <<>>, out |-> TRUE, pc |-> "running", ev |-> <<>>]
Return(v) == [Keep EXCEPT !.ret = v]
Goto(f) == [Keep EXCEPT !.frames = <<f>>]
Call(f, callee) == [Keep EXCEPT !.frames = <<f, callee>>]
Emit(e, out, msgs) == [e EXCEPT !.emit = msgs, !.out = out]
Panic == [Keep EXCEPT !.frames = <<Top>>, !.pc = "panic"]

Apply(e) ==
    IF Len(stack) - 1 + Len(e.frames) > MaxDepth
    THEN /\ pc' = "overflow"
         /\ UNCHANGED <<root, stack, ret, cache, locked, messages, ignored, trace>>
         /\ UNCHANGED <<silent, rpc, pushed, earlier>>
    ELSE /\ stack' = Rest \o e.frames
         /\ ret' = e.ret
         /\ cache' = e.cache
         /\ locked' = e.locked
         /\ messages' = IF e.out THEN messages \o e.emit ELSE messages
         /\ ignored' = IF e.out THEN ignored ELSE ignored \o e.emit
         /\ trace' = trace \o e.ev
         /\ pc' = e.pc
         /\ UNCHANGED <<root, silent, rpc, pushed, earlier>>

Base(lib, unit, part) == [lib |-> lib, unit |-> unit, part |-> part]
At(base, i, j) == Pos(base.lib, base.unit, base.part, i, j, 0)

F_new_root_region(work) ==
    [fn |-> "new_root_region", pc |-> "start", work |-> work,
     region |-> NewRegion(None)]
F_get_package_region(lib, pkg) ==
    [fn |-> "get_package_region", pc |-> "start", lib |-> lib, pkg |-> pkg]
F_analyze_package_declaration_unit(root_region, lib, pkg, out) ==
    [fn |-> "analyze_package_declaration_unit", pc |-> "start",
     region |-> root_region, lib |-> lib, pkg |-> pkg, out |-> out]
F_analyze_package_body_unit(lib, pkg, out) ==
    [fn |-> "analyze_package_body_unit", pc |-> "start", lib |-> lib, pkg |-> pkg,
     out |-> out, primary |-> NewRegion(None)]
F_analyze_package(root_region, lib, pkg, out) ==
    [fn |-> "analyze_package", pc |-> "start", region |-> root_region,
     lib |-> lib, pkg |-> pkg, out |-> out]
F_analyze_context_clause(region, items, base, out) ==
    [fn |-> "analyze_context_clause", pc |-> "item", region |-> region,
     items |-> items, i |-> 1, j |-> 1, base |-> base, out |-> out]
F_analyze_use_clause(region, names, use_pos, out) ==
    [fn |-> "analyze_use_clause", pc |-> "name", region |-> region,
     names |-> names, j |-> 1, use_pos |-> use_pos, out |-> out, package |-> ""]
F_lookup_selected_name(region, name, pos) ==
    [fn |-> "lookup_selected_name", pc |-> "start", region |-> region,
     name |-> name, pos |-> pos, package |-> ""]
F_analyze_concurrent_part(parent, statements, base, out) ==
    [fn |-> "analyze_concurrent_part", pc |-> "statement", region |-> parent,
     statements |-> statements, i |-> 1, base |-> base, out |-> out]
F_analyze_entity(root_region, lib, ent) ==
    [fn |-> "analyze_entity", pc |-> "start", region |-> root_region,
     lib |-> lib, ent |-> ent, a |-> 1, body |-> NewRegion(None)]
F_analyze_declarative_part(region, decls, base, out) ==
    [fn |-> "analyze_declarative_part", pc |-> "decl", region |-> region,
     decls |-> decls, i |-> 1, base |-> base, out |-> out]

(***************************************************************************)
(* LookupResult, and Err(msg) for the Result's error side.                 *)
(***************************************************************************)
Single(vd) == [tag |-> "Single", decl |-> vd, prefix |-> NoPos]
AllWithin(prefix_pos, vd) == [tag |-> "AllWithin", decl |-> vd, prefix |-> prefix_pos]
NotSelected == [tag |-> "NotSelected"]
Unfinished == [tag |-> "Unfinished"]
Err(msg) == [tag |-> "Err", msg |-> msg]

PrefixPos(pos) == [pos EXCEPT !.sub = @ + 2]
SuffixPos(pos) == [pos EXCEPT !.sub = @ + 1]

\* Analyzer::lookup_selected_name
lookup_selected_name(f) ==
    LET name == f.name
    IN  IF f.pc = "start"
        THEN CASE name.k = "Designator" ->
                    LET found == lookup(f.region, name.d)
                    IN IF IsSome(found)
                       THEN Return(Single(TheDecl(found[1])))
                       ELSE Return(Err(Error(f.pos, MsgNoDecl, name.d)))
               [] name.k \in {"Selected", "SelectedAll"} ->
                    Call([f EXCEPT !.pc = "prefix"],
                         F_lookup_selected_name(f.region, name.prefix, PrefixPos(f.pos)))
               [] OTHER -> Return(NotSelected)
        ELSE IF f.pc = "prefix"
        THEN CASE ret.tag = "Err" -> Return(ret)
               [] ret.tag = "AllWithin" ->
                    Return(Err(Error(PrefixPos(f.pos), MsgAllPrefix, "")))
               [] ret.tag \in {"NotSelected", "Unfinished"} -> Return(ret)
               [] ret.tag = "Single" /\ name.k = "SelectedAll" ->
                    Return(AllWithin(PrefixPos(f.pos), ret.decl))
               [] ret.tag = "Single" /\ name.k = "Selected" ->
                    LET decl == ret.decl.decl
                    IN CASE decl.k = "Library" ->
                              LET found == lookup(library_regions(decl.lib), name.suffix)
                              IN IF IsSome(found)
                                 THEN Return(Single(TheDecl(found[1])))
                                 ELSE Return(Err(Error(SuffixPos(f.pos), MsgNoPrimary,
                                                       <<name.suffix, decl.lib>>)))
                         [] decl.k = "Package" ->
                              Call([f EXCEPT !.pc = "package", !.package = decl.unit],
                                   F_get_package_region(decl.lib, decl.unit))
                         [] OTHER -> Return(Unfinished)
        ELSE \* f.pc = "package": the package region has been resolved
             IF IsSome(ret)
             THEN LET found == lookup(ret[1], name.suffix)
                  IN IF IsSome(found)
                     THEN Return(Single(TheDecl(found[1])))
                     ELSE Return(Err(Error(SuffixPos(f.pos), MsgNoDeclWithin,
                                           <<name.suffix, f.package>>)))
             ELSE Return(Err(Error(PrefixPos(f.pos), MsgCircularUsing, f.package)))

\* A library-wide use clause that asks for the region of the library's
\* first package
use_library_all_resolving(f, next, decl) ==
    LET first == TheLibrary(decl.lib).packages[1].name
    IN Call([f EXCEPT !.pc = "all", !.package = first],
            F_get_package_region(decl.lib, first))

\* The AllWithin of a Library in Analyzer::analyze_use_clause: the primary
\* units of the library become potentially visible
use_library_all(f, next, decl) ==
    Goto([next EXCEPT !.region =
            make_all_potentially_visible(@, library_regions(decl.lib))])

\* A use clause of a package name that brings in what the package declares
use_single_exporting(f, next, vd) ==
    IF vd.decl.k = "Package"
    THEN Call([f EXCEPT !.pc = "all", !.package = vd.decl.unit],
              F_get_package_region(vd.decl.lib, vd.decl.unit))
    ELSE Goto(next)

\* A use clause that brings in whatever its name denotes
use_single_any(f, next, vd) ==
    Goto([next EXCEPT !.region = make_potentially_visible(@, vd)])

\* The Single of Analyzer::analyze_use_clause: a package itself becomes
\* potentially visible, any other declaration is passed over
use_single(f, next, vd) ==
    IF vd.decl.k = "Package"
    THEN Goto([next EXCEPT !.region = make_potentially_visible(@, vd)])
    ELSE Goto(next)

\* A `.all` of a package that also passes on what the package itself sees
\* through its use clauses
use_package_all_reexporting(next, package_region) ==
    LET ds == SeqOfSet(DOMAIN package_region.vis)
        seen == Flatten([i \in 1..Len(ds) |-> package_region.vis[ds[i]]])
    IN Goto([next EXCEPT !.region =
               make_visible_all(make_all_potentially_visible(@, package_region), seen)])

\* The AllWithin of a Package in Analyzer::analyze_use_clause, the region
\* of the package at hand
use_package_all(next, package_region) ==
    Goto([next EXCEPT !.region = make_all_potentially_visible(@, package_region)])

\* Every name passes for a selected name
selected_form_any(name) == TRUE

\* The first match of Analyzer::analyze_use_clause: Name::Selected and
\* Name::SelectedAll go on, any other name is reported
selected_form(name) == name.k \in {"Selected", "SelectedAll"}

\* Analyzer::analyze_use_clause
analyze_use_clause(f) ==
    LET next == [f EXCEPT !.pc = "name", !.j = @ + 1]
        name_pos == [f.use_pos EXCEPT !.j = f.j]
    IN  IF f.pc = "name"
        THEN IF f.j > Len(f.names) THEN Return(f.region)
             ELSE IF ~selected_form(f.names[f.j])
             THEN Emit(Goto(next), f.out, <<Error(f.use_pos, MsgUseSelected, "")>>)
             ELSE Call([f EXCEPT !.pc = "looked"],
                       F_lookup_selected_name(f.region, f.names[f.j], name_pos))
        ELSE IF f.pc = "looked"
        THEN CASE ret.tag = "Single" ->
                    use_single(f, next, ret.decl)
               [] ret.tag = "AllWithin" ->
                    LET decl == ret.decl.decl
                    IN CASE decl.k = "Library" -> use_library_all(f, next, decl)
                         [] decl.k = "Package" ->
                              Call([f EXCEPT !.pc = "all", !.package = decl.unit],
                                   F_get_package_region(decl.lib, decl.unit))
                         [] OTHER -> Goto(next)
               [] ret.tag = "Unfinished" -> Goto(next)
               [] ret.tag = "NotSelected" ->
                    Emit(Goto(next), f.out, <<Error(f.use_pos, MsgUseSelected, "")>>)
               [] ret.tag = "Err" -> Emit(Goto(next), f.out, <<ret.msg>>)
        ELSE \* f.pc = "all": the region of the package before '.all' has been resolved
             IF IsSome(ret)
             THEN use_package_all(next, ret[1])
             ELSE Emit(Goto(next), f.out,
                       <<Error(PrefixPos(name_pos), MsgCircularUsing, f.package)>>)

\* A library clause that looks the working library up like any other
RECURSIVE LibraryNames_work_looked_up(_, _, _, _)
LibraryNames_work_looked_up(region, libs, base_pos, j) ==
    IF j > Len(libs) THEN Res(region, <<>>)
    ELSE LET at == [base_pos EXCEPT !.j = j]
             one == IF IsSome(get_library(libs[j]))
                    THEN Res(make_library_visible(region, libs[j], libs[j]), <<>>)
                    ELSE Res(region, <<Error(at, MsgNoLibrary, libs[j])>>)
             rest == LibraryNames_work_looked_up(one.region, libs, base_pos, j + 1)
         IN Res(rest.region, one.msgs \o rest.msgs)

\* A library clause that passes over a library that does not exist
RECURSIVE LibraryNames_missing_passed(_, _, _, _)
LibraryNames_missing_passed(region, libs, base_pos, j) ==
    IF j > Len(libs) THEN Res(region, <<>>)
    ELSE LET at == [base_pos EXCEPT !.j = j]
             one == IF libs[j] = work_sym
                    THEN Res(region, <<Hint(at, MsgWorkHint, "")>>)
                    ELSE IF IsSome(get_library(libs[j]))
                    THEN Res(make_library_visible(region, libs[j], libs[j]), <<>>)
                    ELSE Res(region, <<>>)
             rest == LibraryNames_missing_passed(one.region, libs, base_pos, j + 1)
         IN Res(rest.region, one.msgs \o rest.msgs)

\* The library clause of analyze_context_clause: every name of the clause
RECURSIVE LibraryNames(_, _, _, _)
LibraryNames(region, libs, base_pos, j) ==
    IF j > Len(libs) THEN Res(region, <<>>)
    ELSE LET at == [base_pos EXCEPT !.j = j]
             one == IF libs[j] = work_sym
                    THEN Res(region, <<Hint(at, MsgWorkHint, "")>>)
                    ELSE IF IsSome(get_library(libs[j]))
                    THEN Res(make_library_visible(region, libs[j], libs[j]), <<>>)
                    ELSE Res(region, <<Error(at, MsgNoLibrary, libs[j])>>)
             rest == LibraryNames(one.region, libs, base_pos, j + 1)
         IN Res(rest.region, one.msgs \o rest.msgs)

\* A referenced context that reports into the sink of the referring unit
inline_sink_shared(out) == out

\* `let mut ignore_messages = Vec::new()`: the items of a referenced
\* context are analyzed with a disposable sink
inline_sink(out) == FALSE

\* Analyzer::analyze_context_clause
analyze_context_clause(f) ==
    LET item == f.items[f.i]
        item_pos == At(f.base, f.i, 0)
        name_pos == At(f.base, f.i, f.j)
        next_item == [f EXCEPT !.pc = "item", !.i = @ + 1, !.j = 1]
        next_name == [f EXCEPT !.pc = "item", !.j = @ + 1]
    IN  IF f.pc = "item"
        THEN IF f.i > Len(f.items) THEN Return(f.region)
             ELSE CASE item.k = "Library" ->
                         LET r == LibraryNames(f.region, item.libs, item_pos, 1)
                         IN Emit(Goto([next_item EXCEPT !.region = r.region]),
                                 f.out, r.msgs)
                    [] item.k = "Use" ->
                         Call([f EXCEPT !.pc = "used"],
                              F_analyze_use_clause(f.region, item.names, item_pos, f.out))
                    [] item.k = "Context" ->
                         IF f.j > Len(item.names) THEN Goto(next_item)
                         ELSE IF item.names[f.j].k # "Selected"
                         THEN Emit(Goto(next_name), f.out,
                                   <<Error(item_pos, MsgCtxSelected, "")>>)
                         ELSE Call([f EXCEPT !.pc = "looked"],
                                   F_lookup_selected_name(f.region, item.names[f.j],
                                                          name_pos))
        ELSE IF f.pc = "used"
        THEN Goto([next_item EXCEPT !.region = ret])
        ELSE IF f.pc = "looked"
        THEN CASE ret.tag = "Single" ->
                    IF ret.decl.decl.k = "Context"
                    THEN Call([f EXCEPT !.pc = "inlined"],
                              F_analyze_context_clause(f.region,
                                  TheContext(ret.decl.decl.lib, ret.decl.decl.unit).items,
                                  Base(ret.decl.decl.lib, ret.decl.decl.unit, "items"),
                                  inline_sink(f.out)))
                    ELSE Emit(Goto(next_name), f.out,
                              <<Error(SuffixPos(name_pos), MsgNotContext,
                                      item.names[f.j].suffix)>>)
               [] ret.tag \in {"AllWithin", "Unfinished"} -> Goto(next_name)
               [] ret.tag = "NotSelected" ->
                    Emit(Goto(next_name), f.out, <<Error(item_pos, MsgCtxSelected, "")>>)
               [] ret.tag = "Err" -> Emit(Goto(next_name), f.out, <<ret.msg>>)
        ELSE \* f.pc = "inlined": the items of the referenced context are done
             Goto([next_name EXCEPT !.region = ret])

\* Every declaration may be overloaded
with_overload_always(d) == TRUE

\* No declaration may be overloaded
with_overload_never(d) == FALSE

\* The with_overload flag Analyzer::analyze_declaration gives the
\* declaration of d.ident
with_overload(d) ==
    \/ d.kind = "Alias" /\ d.def = "signature"
    \/ d.kind \in {"SubprogramBody", "SubprogramDeclaration"}

\* The VisibleDeclarations Analyzer::analyze_declaration adds for a
\* declaration that is not a use clause, in the order it adds them.
DeclaredBy(d, at) ==
    LET node == AnyDeclaration("Declaration", "", "", DeclClass(d))
        named == VisibleDeclaration(d.ident, node, Some(at), with_overload(d))
    IN  CASE d.kind = "Type" /\ d.def = "Enumeration" ->
                <<named>> \o
                [n \in 1..Len(d.lits) |->
                    VisibleDeclaration(d.lits[n], AnyDeclaration("Enum", "", "", "Other"),
                                       Some([at EXCEPT !.j = n]), TRUE)]
          [] d.kind \in {"Object", "File", "Component", "Attribute", "Package", "Type",
                         "Alias", "SubprogramBody", "SubprogramDeclaration"} ->
                <<named>>
          [] OTHER -> <<>>

\* check_interface_list_unique_ident and
\* check_element_declaration_unique_ident: the names of the list are added
\* to a region of their own, which is closed at once. `list` tells the
\* lists of one declaration apart.
check_unique_ident(idents, at, list) ==
    LET own == add_all(NewRegion(None),
                 [n \in 1..Len(idents) |->
                    VisibleDeclaration(idents[n],
                        AnyDeclaration("Declaration", "", "", "Other"),
                        Some([at EXCEPT !.j = n, !.sub = list]), FALSE)])
    IN own.msgs \o close_both(own.region).msgs

\* the declarations whose lists analyze_declaration checks
HasLists(d) ==
    \/ d.kind \in {"Component", "SubprogramBody", "SubprogramDeclaration"}
    \/ d.kind = "Type" /\ d.def \in {"Protected", "Record"}

\* the declarations with a declarative part of their own
HasDeclarations(d) ==
    d.kind = "SubprogramBody" \/ (d.kind = "Type" /\ d.def = "ProtectedBody")

\* A declaration whose lists are added to the region it is declared in
analyze_declaration_shared(region, d, at) ==
    LET lists == IF HasLists(d) THEN d.lists ELSE <<>>
        listed(l) == [n \in 1..Len(lists[l]) |->
                        VisibleDeclaration(lists[l][n],
                            AnyDeclaration("Declaration", "", "", "Other"),
                            Some([at EXCEPT !.j = n, !.sub = l]), FALSE)]
    IN add_all(region, DeclaredBy(d, at) \o Flatten([l \in 1..Len(lists) |-> listed(l)]))

\* Analyzer::analyze_declaration, for every declaration but a use clause
\* and without the declarative part of a subprogram or protected body
analyze_declaration(region, d, at) ==
    LET added == add_all(region, DeclaredBy(d, at))
        lists == IF HasLists(d) THEN d.lists ELSE <<>>
    IN Res(added.region,
           added.msgs \o
           Flatten([l \in 1..Len(lists) |-> check_unique_ident(lists[l], at, l)]))

\* Analyzer::analyze_declarative_part
analyze_declarative_part(f) ==
    LET d == f.decls[f.i]
        at == At(f.base, f.i, 0)
        next == [f EXCEPT !.pc = "decl", !.i = @ + 1]
    IN  IF f.pc = "decl"
        THEN IF f.i > Len(f.decls) THEN Return(f.region)
             ELSE IF d.kind = "Use"
             THEN Call([f EXCEPT !.pc = "used"],
                       F_analyze_use_clause(f.region, d.names, at, f.out))
             ELSE LET r == analyze_declaration(f.region, d, at)
                  IN IF HasDeclarations(d)
                     THEN Emit(Call([f EXCEPT !.pc = "nested", !.region = r.region],
                                    F_analyze_declarative_part(
                                        NewRegion(Some(r.region)), d.decls,
                                        [f.base EXCEPT !.part =
                                            IF d.kind = "SubprogramBody"
                                            THEN "subprogram" ELSE "protected_body"],
                                        f.out)),
                               f.out, r.msgs)
                     ELSE Emit(Goto([next EXCEPT !.region = r.region]), f.out, r.msgs)
        ELSE IF f.pc = "nested"
        THEN \* the region of the body's declarative part is dropped
             Goto(next)
        ELSE \* f.pc = "used"
             Goto([next EXCEPT !.region = ret])

\* Analyzer::analyze_concurrent_part and analyze_concurrent_statement: a
\* block or process gets a region of its own under the parent, which is
\* never closed
analyze_concurrent_part(f) ==
    LET st == f.statements[f.i]
        next == [f EXCEPT !.pc = "statement", !.i = @ + 1]
    IN  IF f.pc = "statement"
        THEN IF f.i > Len(f.statements) THEN Return(None)
             ELSE IF st.kind = "Block"
             THEN Call([f EXCEPT !.pc = "block"],
                       F_analyze_declarative_part(NewRegion(Some(f.region)), st.decl,
                           [f.base EXCEPT !.part = "block"], f.out))
             ELSE IF st.kind = "Process"
             THEN Call(next,
                       F_analyze_declarative_part(NewRegion(Some(f.region)), st.decl,
                           [f.base EXCEPT !.part = "process"], f.out))
             ELSE Goto(next)
        ELSE \* f.pc = "block": the declarative part of the block is done
             Call(next, F_analyze_concurrent_part(ret, st.statements, f.base, f.out))

\* The history: lock attempts (with their outcome and sink) and top-level visits
LockEvent(ok, key, out) ==
    [ev |-> "lock", ok |-> ok, key |-> key, out |-> out, k |-> "package"]
VisitEvent(k, lib, unit) ==
    [ev |-> "visit", ok |-> TRUE, key |-> Key(lib, unit), out |-> TRUE, k |-> k]

\* An architecture whose region is not put under its own root region
architecture_region_detached(entity_region, root_region) == entity_region

\* Architectures that work on one region instead of a clone each
next_architecture_shared(entity_region, body) == body

\* region.clone(): each architecture starts from the entity's region, not
\* from what the architecture before it left
next_architecture(entity_region, body) == entity_region

\* An architecture that does not extend the region of its entity
architecture_region_fresh(entity_region, root_region) == NewRegion(Some(root_region))

\* The region of an architecture body: the entity's region, extended, under
\* the architecture's own root region
architecture_region(entity_region, root_region) ==
    into_extended(entity_region, root_region)

\* The entity loop of Analyzer::analyze_library with
\* analyze_entity_declaration and analyze_architecture_body
analyze_entity(f) ==
    LET entity == TheEntity(f.lib, f.ent)
        arch == entity.architectures[f.a]
    IN  CASE f.pc = "start" ->
               Call([f EXCEPT !.pc = "context"],
                    F_analyze_context_clause(f.region, entity.ctx,
                        Base(f.lib, f.ent, "ctx"), TRUE))
          [] f.pc = "context" ->
               LET g == add_interface_list(NewRegion(Some(ret)), entity.generics,
                                           f.lib, f.ent, "generic")
                   p == add_interface_list(g.region, entity.ports, f.lib, f.ent, "port")
               IN Emit(Call([f EXCEPT !.pc = "declared"],
                            F_analyze_declarative_part(p.region, entity.decl,
                                Base(f.lib, f.ent, "decl"), TRUE)),
                       TRUE, g.msgs \o p.msgs)
          [] f.pc = "declared" ->
               Call([f EXCEPT !.pc = "statements", !.region = ret],
                    F_analyze_concurrent_part(ret, entity.statements,
                        Base(f.lib, f.ent, "statement"), TRUE))
          [] f.pc = "statements" ->
               LET closed == close_immediate(f.region)
               IN Emit(Goto([f EXCEPT !.pc = "architecture", !.region = closed.region]),
                       TRUE, closed.msgs)
          [] f.pc = "architecture" ->
               IF f.a > Len(entity.architectures) THEN Return(None)
               ELSE [Call([f EXCEPT !.pc = "arch_context"],
                          F_analyze_context_clause(f.region, arch.ctx,
                              Base(f.lib, arch.name, "ctx"), TRUE))
                     EXCEPT !.ev = <<VisitEvent("architecture", f.lib, f.ent)>>]
          [] f.pc = "arch_context" ->
               Call([f EXCEPT !.pc = "arch_declared"],
                    F_analyze_declarative_part(architecture_region(f.region, ret), arch.decl,
                        Base(f.lib, arch.name, "decl"), TRUE))
          [] f.pc = "arch_declared" ->
               Call([f EXCEPT !.pc = "arch_statements", !.body = ret],
                    F_analyze_concurrent_part(ret, arch.statements,
                        Base(f.lib, arch.name, "statement"), TRUE))
          [] f.pc = "arch_statements" ->
               LET closed == close_both(f.body)
               IN Emit(Goto([f EXCEPT !.pc = "architecture", !.a = @ + 1,
                                      !.region = next_architecture(@, closed.region)]),
                       TRUE, closed.msgs)

\* Analyzer::new_root_region
new_root_region(f) ==
    IF f.pc = "start"
    THEN LET region == make_library_visible(NewRegion(None), work_sym, f.work)
         IN IF IsNone(get_library(std_sym)) THEN Return(region)
            ELSE LET found == lookup(library_regions(std_sym), standard_designator)
                 IN IF IsSome(found) /\ TheDecl(found[1]).decl.k = "Package"
                    THEN Call([f EXCEPT !.pc = "standard",
                                  !.region = make_library_visible(region, std_sym, std_sym)],
                              F_get_package_region(std_sym, standard_designator))
                    ELSE Panic
    ELSE \* f.pc = "standard": the region of std.standard has been resolved
         IF IsSome(ret)
         THEN Return(make_all_potentially_visible(f.region, ret[1]))
         ELSE Panic

\* An on-demand resolution that reports into the output instead of a
\* disposable sink
get_package_region_reporting(f) ==
    IF f.pc = "start"
    THEN LET region == get_region(cache, Key(f.lib, f.pkg))
         IN IF IsSome(region) THEN Return(region)
            ELSE Call([f EXCEPT !.pc = "rooted"], F_new_root_region(f.lib))
    ELSE IF f.pc = "rooted"
    THEN Call([f EXCEPT !.pc = "analyzed"],
              F_analyze_package_declaration_unit(ret, f.lib, f.pkg, TRUE))
    ELSE Return(ret)

\* Analyzer::get_package_region
get_package_region(f) ==
    IF f.pc = "start"
    THEN LET region == get_region(cache, Key(f.lib, f.pkg))
         IN IF IsSome(region) THEN Return(region)
            ELSE Call([f EXCEPT !.pc = "rooted"], F_new_root_region(f.lib))
    ELSE IF f.pc = "rooted"
    THEN Call([f EXCEPT !.pc = "analyzed"],
              F_analyze_package_declaration_unit(ret, f.lib, f.pkg, FALSE))
    ELSE Return(ret)

\* A package declaration whose region is not marked as one
analyze_package_declaration_unmarked(parent, lib, package) ==
    LET generics == [n \in 1..Len(package.generics) |->
            VisibleDeclaration(package.generics[n],
                AnyDeclaration("Declaration", "", "", "Other"),
                Some(Pos(lib, package.name, "generic", n, 0, 0)), FALSE)]
    IN add_all(NewRegion(Some(parent)), generics)

\* Analyzer::analyze_package_declaration (the region it starts from)
analyze_package_declaration(parent, lib, package) ==
    LET region == in_package_declaration(NewRegion(Some(parent)))
        generics == [n \in 1..Len(package.generics) |->
            VisibleDeclaration(package.generics[n],
                AnyDeclaration("Declaration", "", "", "Other"),
                Some(Pos(lib, package.name, "generic", n, 0, 0)), FALSE)]
    IN add_all(region, generics)

\* A package declaration whose region is left open
close_package_declaration_skipped(region, package) == Res(region, <<>>)

\* the closing of a package declaration's region
close_package_declaration(region, package) ==
    IF package.hasBody THEN close_immediate(region) ELSE close_both(region)

\* Analyzer::analyze_package_declaration_unit
analyze_package_declaration_unit(f) ==
    LET key == Key(f.lib, f.pkg)
        package == ThePackage(f.lib, f.pkg)
    IN  IF f.pc = "start"
        THEN IF ~lock_ok(locked, key)
             THEN [Emit(Return(None), f.out,
                        <<Error(Pos(f.lib, f.pkg, "ident", 0, 0, 0),
                                MsgCircularAnalyzing, key)>>)
                   EXCEPT !.cache = set_region(cache, key, None),
                          !.locked = lock(locked, key),
                          !.ev = <<LockEvent(FALSE, key, f.out)>>]
             ELSE [Call([f EXCEPT !.pc = "context"],
                        F_analyze_context_clause(f.region, package.ctx,
                                                 Base(f.lib, f.pkg, "ctx"), f.out))
                   EXCEPT !.locked = lock(locked, key),
                          !.ev = <<LockEvent(TRUE, key, f.out)>>]
        ELSE IF f.pc = "context"
        THEN LET r == analyze_package_declaration(ret, f.lib, package)
             IN Emit(Call([f EXCEPT !.pc = "close", !.region = ret],
                          F_analyze_declarative_part(r.region, package.decl,
                                                     Base(f.lib, f.pkg, "decl"), f.out)),
                     f.out, r.msgs)
        ELSE \* f.pc = "close"
             LET r == close_package_declaration(ret, package)
                 stored == set_region(cache, key, Some(r.region))
             IN [Emit(Return(get_region(stored, key)), f.out, r.msgs)
                 EXCEPT !.cache = stored,
                        !.locked = LockGuard_drop(locked, key)]

\* A package body whose context clause is analyzed in the region of the
\* package declaration itself
body_root_region_primary(primary_region) == Some(primary_region)

\* primary_region.clone_parent(): the root region of the package body
body_root_region(primary_region) == clone_parent(primary_region)

\* Analyzer::analyze_package_body_unit
analyze_package_body_unit(f) ==
    LET package == ThePackage(f.lib, f.pkg)
    IN  IF f.pc = "start"
        THEN IF package.hasBody
             THEN Call([f EXCEPT !.pc = "region"], F_get_package_region(f.lib, f.pkg))
             ELSE Return(None)
        ELSE IF f.pc = "region"
        THEN IF IsSome(ret)
             THEN IF IsSome(body_root_region(ret[1]))
                  THEN Call([f EXCEPT !.pc = "context", !.primary = ret[1]],
                            F_analyze_context_clause(body_root_region(ret[1])[1],
                                package.bodyCtx, Base(f.lib, f.pkg, "bodyctx"), f.out))
                  ELSE Panic
             ELSE Return(None)
        ELSE IF f.pc = "context"
        THEN Call([f EXCEPT !.pc = "close"],
                  F_analyze_declarative_part(into_extended(f.primary, ret),
                      package.bodyDecl, Base(f.lib, f.pkg, "body"), f.out))
        ELSE \* f.pc = "close"
             Emit(Return(None), f.out, close_both(ret).msgs)

\* Analyzer::analyze_package
analyze_package(f) ==
    IF f.pc = "start"
    THEN Call([f EXCEPT !.pc = "body"],
              F_analyze_package_declaration_unit(f.region, f.lib, f.pkg, f.out))
    ELSE Goto(F_analyze_package_body_unit(f.lib, f.pkg, f.out))

(***************************************************************************)
(* Analyzer::analyze and Analyzer::analyze_library: the units in the order *)
(* the two functions visit them.                                           *)
(***************************************************************************)
Unit(k, lib, name) == [k |-> k, lib |-> lib, name |-> name]

\* A library loop that takes the contexts before the package instances
LibraryUnits_contexts_first(l) ==
    [i \in 1..Len(l.packages) |-> Unit("package", l.name, l.packages[i].name)]
    \o [i \in 1..Len(l.contexts) |-> Unit("context", l.name, l.contexts[i].name)]
    \o [i \in 1..Len(l.instances) |-> Unit("package_instance", l.name, l.instances[i].name)]
    \o [i \in 1..Len(l.entities) |-> Unit("entity", l.name, l.entities[i].name)]

LibraryUnits(l) ==
    [i \in 1..Len(l.packages) |-> Unit("package", l.name, l.packages[i].name)]
    \o [i \in 1..Len(l.instances) |-> Unit("package_instance", l.name, l.instances[i].name)]
    \o [i \in 1..Len(l.contexts) |-> Unit("context", l.name, l.contexts[i].name)]
    \o [i \in 1..Len(l.entities) |-> Unit("entity", l.name, l.entities[i].name)]

Units ==
    (IF IsSome(get_library(std_sym))
     THEN LET l == TheLibrary(std_sym)
          IN [i \in 1..Len(l.packages) |-> Unit("std_package", l.name, l.packages[i].name)]
     ELSE <<>>)
    \o Flatten([i \in 1..Len(root) |->
                   IF root[i].name = std_sym THEN <<>> ELSE LibraryUnits(root[i])])

TheInstance(lib, unit) ==
    LET xs == TheLibrary(lib).instances
    IN xs[CHOOSE i \in 1..Len(xs) : xs[i].name = unit]

F_analyze == [fn |-> "analyze", pc |-> "unit", i |-> 1]

analyze(f) ==
    LET u == Units[f.i]
        next == [f EXCEPT !.pc = "unit", !.i = @ + 1]
    IN  IF f.pc = "unit"
        THEN IF f.i > Len(Units) THEN [Keep EXCEPT !.pc = "done"]
             ELSE IF u.k = "std_package"
             THEN [Call(next, F_analyze_package(NewRegion(None), u.lib, u.name, TRUE))
                   EXCEPT !.ev = <<VisitEvent(u.k, u.lib, u.name)>>]
             ELSE [Call([f EXCEPT !.pc = "rooted"], F_new_root_region(u.lib))
                   EXCEPT !.ev = <<VisitEvent(u.k, u.lib, u.name)>>]
        ELSE \* f.pc = "rooted": the unit's root region has been built
             CASE u.k = "package" ->
                    Call(next, F_analyze_package(ret, u.lib, u.name, TRUE))
               [] u.k = "package_instance" ->
                    Call(next, F_analyze_context_clause(ret, TheInstance(u.lib, u.name).ctx,
                                   Base(u.lib, u.name, "ctx"), TRUE))
               [] u.k = "context" ->
                    Call(next, F_analyze_context_clause(ret, TheContext(u.lib, u.name).items,
                                   Base(u.lib, u.name, "items"), TRUE))
               [] u.k = "entity" ->
                    Call(next, F_analyze_entity(ret, u.lib, u.name))

(***************************************************************************)
(* The design roots the analysis is run on.                                *)
(***************************************************************************)
W(unit, x) == Selected(Selected(Designator(work_sym), unit), x)
WAll(unit) == SelectedAll(Selected(Designator(work_sym), unit))

ConstC == Decl("Object", "c", "full")

NoStd == <<>>
StdLibrary(ctx) ==
    <<Library(std_sym,
        <<PackageDesignUnit(standard_designator, ctx, <<>>,
                            <<EnumDecl("boolean", <<"true">>)>>, FALSE, <<>>, <<>>)>>,
        <<>>, <<>>)>>

\* Context clauses by which package p refers to package q of its own library
ContextChoices(q) ==
    { <<>>,
      <<UseClause(<<W(q, "c")>>)>>,
      <<UseClause(<<WAll(q)>>)>>,
      <<UseClause(<<SelectedAll(Designator(work_sym))>>)>>,
      <<UseClause(<<Selected(Designator(work_sym), q)>>)>>,
      <<LibraryClause(<<"libname">>),
        UseClause(<<Selected(Selected(Designator("libname"), q), "c")>>)>> }

\* Shapes of the first package: its declarations besides c and its body
Shapes ==
    { [decl |-> <<>>, hasBody |-> FALSE, bodyDecl |-> <<>>],
      [decl |-> <<>>, hasBody |-> TRUE, bodyDecl |-> <<>>],
      [decl |-> <<Decl("Object", "k", "deferred")>>, hasBody |-> TRUE, bodyDecl |-> <<>>],
      [decl |-> <<Decl("Object", "k", "deferred")>>, hasBody |-> TRUE,
       bodyDecl |-> <<Decl("Object", "k", "full")>>],
      [decl |-> <<>>, hasBody |-> TRUE,
       bodyDecl |-> <<Decl("Object", "k", "full"), Decl("Object", "k", "full")>>] }

\* Two packages of one library that may use each other, in both visit orders
TwoPackageRoots ==
    { std \o <<Library("libname",
                 IF first
                 THEN <<PackageDesignUnit("pkg1", c1, <<>>, <<ConstC>> \o sh.decl,
                                          sh.hasBody, <<>>, sh.bodyDecl),
                        PackageDesignUnit("pkg2", c2, <<>>, <<ConstC>>, FALSE, <<>>, <<>>)>>
                 ELSE <<PackageDesignUnit("pkg2", c2, <<>>, <<ConstC>>, FALSE, <<>>, <<>>),
                        PackageDesignUnit("pkg1", c1, <<>>, <<ConstC>> \o sh.decl,
                                          sh.hasBody, <<>>, sh.bodyDecl)>>,
                 <<>>, <<>>)>> :
        std \in {NoStd, StdLibrary(<<>>)}, first \in BOOLEAN,
        c1 \in ContextChoices("pkg2"), c2 \in ContextChoices("pkg1"), sh \in Shapes }

\* A standard library whose package standard has a context clause of its own
StdRoots ==
    { StdLibrary(ctx) \o
      <<Library("libname",
          <<PackageDesignUnit("pkg1", <<>>, <<>>, <<ConstC>>, FALSE, <<>>, <<>>)>>,
          <<>>, <<>>)>> :
        ctx \in { <<LibraryClause(<<std_sym>>)>>,
                  <<LibraryClause(<<std_sym>>),
                    UseClause(<<SelectedAll(Selected(Designator(std_sym),
                                                     standard_designator))>>)>>,
                  <<UseClause(<<WAll(standard_designator)>>)>> } }

\* Declarations of the designator a, of every kind the region tells apart
Alphabet ==
    { Decl("Object", "a", "full"), Decl("Object", "a", "deferred"),
      Decl("Type", "a", "Incomplete"), Decl("Type", "a", "Record"),
      Decl("Type", "a", "Protected"), Decl("Type", "a", "ProtectedBody"),
      Decl("SubprogramDeclaration", "a", ""), Decl("Alias", "a", "signature"),
      Decl("Alias", "a", "plain"), EnumDecl("e", <<"a">>) }

PairAlphabet ==
    { Decl("Object", "a", "full"), Decl("Object", "a", "deferred"),
      Decl("Type", "a", "Incomplete"), Decl("Type", "a", "Record"),
      Decl("Type", "a", "Protected"), Decl("Type", "a", "ProtectedBody") }

BodyAlphabet ==
    { Decl("Object", "a", "full"), Decl("Object", "a", "deferred"),
      Decl("Type", "a", "ProtectedBody") }

\* One package without a body and any declarative part of up to MaxDecls items
DeclRoots ==
    { <<Library("libname",
          <<PackageDesignUnit("pkg", <<>>, <<>>, decl, FALSE, <<>>, <<>>)>>,
          <<>>, <<>>)>> :
        decl \in SeqsUpTo(Alphabet, 0, MaxDecls) }

\* One package with a body, both with up to MaxPairDecls declarations
PairRoots ==
    { <<Library("libname",
          <<PackageDesignUnit("pkg", <<>>, <<>>, decl, TRUE, <<>>, body)>>,
          <<>>, <<>>)>> :
        decl \in SeqsUpTo(PairAlphabet, 0, MaxPairDecls),
        body \in SeqsUpTo(BodyAlphabet, 0, MaxPairDecls) }

\* Declarative parts of a secondary unit whose primary unit has the generic
\* g, the port p and the declarations t and a
SecondaryDecls ==
    { <<>>, <<Decl("Object", "g", "full")>>, <<Decl("Object", "p", "full")>>,
      <<Decl("Type", "t", "Record")>>, <<Decl("Object", "b", "full")>>,
      <<Decl("Type", "a", "Incomplete")>>, <<Decl("Type", "a", "Record")>> }

\* One entity with two architectures in both iteration orders, and one
\* generic package with a body
SecondaryRoots ==
    { <<LibraryOf("libname", <<>>, <<>>, <<>>,
          <<EntityDesignUnit("ent", <<>>, <<"g">>, <<"p">>, <<Decl("Type", "t", "Record")>>,
              LET one == ArchitectureBody("rtl1", <<>>, d1, st)
                  two == ArchitectureBody("rtl2", <<>>, d2, <<>>)
              IN IF first THEN <<one, two>> ELSE <<two, one>>)>>)>> :
        first \in BOOLEAN, d1 \in SecondaryDecls, d2 \in SecondaryDecls,
        st \in { <<>>, <<Statement("Block", <<Decl("Type", "a", "Record")>>, <<>>)>>,
                 <<Statement("Process", <<Decl("Object", "b", "full")>>, <<>>)>> } }
    \cup
    { <<Library("libname",
          <<PackageDesignUnit("pkg", <<>>, <<"g">>, decl, TRUE, <<>>, body)>>,
          <<>>, <<>>)>> :
        decl \in { <<Decl("Type", "t", "Record")>>, <<Decl("Type", "a", "Incomplete")>> },
        body \in SecondaryDecls }

\* The library and use clauses about the package usepkg of library libname:
\* `use work.usepkg`, `use usepkg.c`, `library libname`, `use libname.usepkg`
Clauses ==
    [work_usepkg |-> UseClause(<<Selected(Designator(work_sym), "usepkg")>>),
     usepkg_c |-> UseClause(<<Selected(Designator("usepkg"), "c")>>),
     libname |-> LibraryClause(<<"libname">>),
     libname_usepkg |-> UseClause(<<Selected(Designator("libname"), "usepkg")>>)]

\* Library libname with the package usepkg and either a package with a body
\* or an entity with two architectures, with clauses in the context clause
\* and the declarative part of the primary and of the secondary units
VisibilityRoots ==
    LET usepkg == PackageDesignUnit("usepkg", <<>>, <<>>, <<ConstC>>, FALSE, <<>>, <<>>)
        primary == { <<>>, <<Clauses.work_usepkg>>, <<Clauses.libname>>,
                     <<Clauses.libname, Clauses.libname_usepkg>> }
        secondary == { <<>>, <<Clauses.work_usepkg>>, <<Clauses.usepkg_c>>,
                       <<Clauses.libname>>, <<Clauses.libname_usepkg>> }
        uses == { <<>> } \cup
                { <<UseDecl(u.names)>> :
                    u \in {Clauses.work_usepkg, Clauses.usepkg_c, Clauses.libname_usepkg} }
    IN { <<Library("libname",
             <<usepkg, PackageDesignUnit("pkg", ctx, <<>>, decl, TRUE, bctx, bdecl)>>,
             <<>>, <<>>)>> :
           ctx \in primary, decl \in {<<>>, <<UseDecl(Clauses.work_usepkg.names)>>},
           bctx \in secondary, bdecl \in uses }
       \cup
       { <<LibraryOf("libname", <<usepkg>>, <<>>, <<>>,
             <<EntityDesignUnit("ent", ctx, <<>>, <<>>, <<>>,
                  <<ArchitectureBody("rtl1", c1, d1, <<>>),
                    ArchitectureBody("rtl2", c2, d2, <<>>)>>)>>)>> :
           ctx \in primary, c1 \in secondary, d1 \in uses,
           c2 \in secondary, d2 \in uses }

\* Context items: library clauses of the working, an existing and a
\* missing library, use clauses and context references with names that are
\* and are not selected names, and use clauses that need what the items
\* before them brought in
ClauseItems ==
    { LibraryClause(<<work_sym>>), LibraryClause(<<work_sym, "libname">>),
      LibraryClause(<<"missing", work_sym, "libname">>), LibraryClause(<<"missing">>),
      Clauses.libname_usepkg,
      UseClause(<<Selected(Designator("missing"), "usepkg")>>),
      UseClause(<<Designator(work_sym), OtherName>>),
      UseClause(<<OtherName, Selected(Designator(work_sym), "usepkg"),
                  Designator("usepkg")>>),
      Clauses.usepkg_c,
      ContextReference(<<Designator("libname"), Selected(Designator(work_sym), "ctx")>>),
      ContextReference(<<Selected(Designator(work_sym), "ctx"), OtherName>>) }

\* Library libname with the package usepkg and
\*  - the context ctx, and a package, a context declaration and an entity
\*    that carry the same context items, or
\*  - a package pkg with usepkg brought in by a use clause and a package
\*    that uses a name through pkg or all of pkg, or
\*  - a context ctx with something wrong in it and units that refer to it
\*    and to units that are no contexts, or
\*  - something wrong in usepkg itself and units that ask for its region,
\*    before and after usepkg is visited, or
\*  - a package that brings usepkg in by its name and then uses a name
\*    through it, in its context clause or in that of its body, or
\*  - units of every kind and a package whose use clause names one of
\*    them or something within one of them
ClauseRoots ==
    LET usepkg == PackageDesignUnit("usepkg", <<>>, <<>>, <<ConstC>>, FALSE, <<>>, <<>>)
        ctx == ContextDeclaration("ctx", <<Clauses.libname, Clauses.work_usepkg>>)
    IN { <<LibraryOf("libname",
             <<usepkg, PackageDesignUnit("pkg", items, <<>>, <<>>, FALSE, <<>>, <<>>)>>,
             <<ctx, ContextDeclaration("ctx2", items)>>, <<>>,
             <<EntityDesignUnit("ent", items, <<>>, <<>>, <<>>, <<>>)>>)>> :
           items \in SeqsUpTo(ClauseItems, 1, MaxItems) }
       \cup
       { <<Library("libname",
             <<usepkg,
               PackageDesignUnit("pkg", pctx, <<>>, decl, FALSE, <<>>, <<>>),
               PackageDesignUnit("user", <<UseClause(names)>>, <<>>, <<>>,
                                 FALSE, <<>>, <<>>)>>,
             <<>>, <<>>)>> :
           pctx \in {<<>>, <<Clauses.work_usepkg>>, <<UseClause(<<WAll("usepkg")>>)>>},
           decl \in {<<>>, <<UseDecl(Clauses.work_usepkg.names)>>, <<ConstC>>,
                     <<UseDecl(<<WAll("usepkg")>>), Decl("Object", "k", "full")>>},
           names \in {<<W("pkg", x)>> : x \in {"usepkg", work_sym, "c"}}
                      \cup {<<WAll("pkg")>>, <<WAll("usepkg"), WAll("pkg")>>} }
       \cup
       { <<LibraryOf("libname",
             <<usepkg, PackageDesignUnit("pkg", refs, <<>>, <<>>, FALSE, <<>>, <<>>)>>,
             <<ContextDeclaration("ctx", <<bad, Clauses.work_usepkg>>),
               ContextDeclaration("ctx2", refs)>>, <<>>,
             <<EntityDesignUnit("ent", refs, <<>>, <<>>, <<>>, <<>>)>>)>> :
           bad \in { LibraryClause(<<"missing">>), UseClause(<<Designator("usepkg")>>),
                     UseClause(<<W("usepkg", "missing")>>) },
           refs \in
             LET to(x) == Selected(Designator(work_sym), x)
             IN { <<ContextReference(<<to("ctx")>>), Clauses.usepkg_c>>,
                  <<ContextReference(<<to("ctx"), to("usepkg")>>)>>,
                  <<ContextReference(<<to("usepkg")>>), Clauses.usepkg_c>>,
                  <<ContextReference(<<to("ctx")>>), ContextReference(<<to("ctx")>>)>>,
                  <<ContextReference(<<W("usepkg", "c"), to("ent"), to("ctx")>>)>> } }
       \cup
       { <<LibraryOf("libname",
             LET p == PackageDesignUnit("usepkg", <<LibraryClause(<<"missing">>)>>, <<>>,
                                        <<ConstC, ConstC>>, FALSE, <<>>, <<>>)
                 q == PackageDesignUnit("pkg", <<UseClause(names)>>, <<>>, <<>>,
                                        FALSE, <<>>, <<>>)
             IN IF first THEN <<p, q>> ELSE <<q, p>>,
             <<>>, <<>>,
             <<EntityDesignUnit("ent", <<UseClause(<<WAll("usepkg")>>)>>,
                                <<>>, <<>>, <<>>, <<>>)>>)>> :
           first \in BOOLEAN,
           names \in { <<Selected(Designator(work_sym), "usepkg")>>, <<W("usepkg", "c")>>,
                       <<W("usepkg", "c"), WAll("usepkg")>> } }
       \cup
       { <<Library("libname",
             <<usepkg,
               IF split
               THEN PackageDesignUnit("pkg", first, <<>>, <<>>, TRUE,
                       <<UseClause(<<Selected(Designator("usepkg"), x)>>)>>, <<>>)
               ELSE PackageDesignUnit("pkg",
                       first \o <<UseClause(<<Selected(Designator("usepkg"), x)>>)>>,
                       <<>>, <<>>, FALSE, <<>>, <<>>)>>,
             <<>>, <<>>)>> :
           first \in {<<Clauses.work_usepkg>>, <<Clauses.libname, Clauses.libname_usepkg>>},
           split \in BOOLEAN,
           x \in {"c", "missing", "usepkg", work_sym} }
       \cup
       { <<LibraryOf("libname",
             <<usepkg, PackageDesignUnit("user", <<UseClause(names)>>, <<>>, <<>>,
                                         FALSE, <<>>, <<>>)>>,
             <<ctx>>, <<PackageInstance("ipkg", <<>>)>>,
             <<EntityDesignUnit("ent", <<>>, <<>>, <<>>, <<>>, <<>>)>>)>> :
           names \in
             LET to(x) == Selected(Designator(work_sym), x)
             IN { <<to("ent")>>, <<to("ctx")>>, <<to("ipkg")>>, <<W("usepkg", "c")>>,
                  <<W("ent", "x")>>, <<W("ipkg", "c")>>, <<Selected(W("usepkg", "c"), "x")>>,
                  <<WAll("ent")>>, <<SelectedAll(W("ent", "x"))>>,
                  <<to("ent"), W("usepkg", "c"), W("ctx", "x")>> } }

\* One package whose declarations have interface and element lists, with
\* at most one subprogram body, and one entity with generics, ports and a
\* component
InterfaceRoots ==
    LET x == Decl("Object", "x", "full")
        sub(name, params) == ListDecl("SubprogramDeclaration", name, "", <<params>>, <<>>)
        body(params, decls) == ListDecl("SubprogramBody", "f", "", <<params>>, decls)
        comp(generics, ports) == ListDecl("Component", "c", "", <<generics, ports>>, <<>>)
        rec(elements) == ListDecl("Type", "r", "Record", <<elements>>, <<>>)
        alphabet == { x, sub("f", <<"x">>), sub("h", <<"x", "y", "x">>),
                      body(<<"x">>, <<x>>), body(<<"x", "x">>, <<x, x>>),
                      comp(<<"x">>, <<"x">>), comp(<<"x", "x">>, <<"c", "y", "c">>),
                      rec(<<"x", "r">>), rec(<<"x", "y", "x">>),
                      ListDecl("Type", "t", "Protected", <<<<"x">>, <<"x", "x">>>>, <<>>),
                      ListDecl("Type", "t", "ProtectedBody", <<>>, <<x, x>>) }
    IN { <<Library("libname",
             <<PackageDesignUnit("pkg", <<>>, <<>>, decl, FALSE, <<>>, <<>>)>>,
             <<>>, <<>>)>> :
           decl \in {ds \in SeqsUpTo(alphabet, 1, MaxPairDecls) :
                       Cardinality({i \in 1..Len(ds) : HasDeclarations(ds[i])}) <= 1} }
       \cup
       { <<LibraryOf("libname", <<>>, <<>>, <<>>,
             <<EntityDesignUnit("ent", <<>>, generics, ports, decl, <<>>)>>)>> :
           generics \in {<<"x">>, <<"x", "x">>}, ports \in {<<"x">>, <<"p">>, <<"p", "x", "p">>},
           decl \in {<<>>, <<comp(<<"x">>, <<"p">>)>>, <<sub("f", <<"p", "x">>)>>} }

\* A std library and two libraries with units of every kind, in every
\* order of iteration over the libraries
OrderRoots ==
    LET package(name) == PackageDesignUnit(name, <<>>, <<>>, <<ConstC>>, FALSE, <<>>, <<>>)
        process == Statement("Process", <<ConstC>>, <<>>)
        libs == StdLibrary(<<>>) \o
                <<LibraryOf("liba", <<package("a1"), package("a2")>>,
                      <<ContextDeclaration("c1", <<LibraryClause(<<"libb">>)>>)>>,
                      <<PackageInstance("i1", <<LibraryClause(<<std_sym>>)>>)>>,
                      <<EntityDesignUnit("e1", <<>>, <<>>, <<>>, <<>>,
                            <<ArchitectureBody("rtl1", <<>>, <<>>, <<process>>),
                              ArchitectureBody("rtl2", <<>>, <<>>, <<>>)>>),
                        EntityDesignUnit("e2", <<>>, <<>>, <<>>, <<>>,
                            <<ArchitectureBody("rtl", <<>>, <<>>, <<>>)>>)>>),
                  LibraryOf("libb", <<package("b1")>>,
                      <<ContextDeclaration("c2", <<>>)>>, <<>>,
                      <<EntityDesignUnit("e3", <<>>, <<>>, <<>>, <<>>, <<>>)>>)>>
        \* a std library that holds units of every kind
        std == LibraryOf(std_sym,
                   <<PackageDesignUnit(standard_designator, <<>>, <<>>,
                         <<EnumDecl("boolean", <<"true">>)>>, TRUE, <<>>, <<ConstC>>)>>,
                   <<ContextDeclaration("c0", <<>>)>>,
                   <<PackageInstance("i0", <<>>)>>,
                   <<EntityDesignUnit("e0", <<>>, <<>>, <<>>, <<ConstC>>,
                         <<ArchitectureBody("rtl", <<>>, <<>>, <<>>)>>)>>)
    IN { [i \in 1..3 |-> libs[order[i]]] :
           order \in {o \in [1..3 -> 1..3] : \A i, j \in 1..3 : o[i] = o[j] => i = j} }
       \cup { <<std, libs[3]>>, <<libs[3], std>> }

\* Three packages of one library in every visit order: pkg1 uses pkg2 or
\* itself, pkg2 may use pkg1, and pkg3 uses one of the two and is used by
\* no package
CycleRoots ==
    LET using(q) == <<UseClause(<<WAll(q)>>)>>
        package(name, ctx) == PackageDesignUnit(name, ctx, <<>>, <<ConstC>>, FALSE, <<>>, <<>>)
    IN { <<Library("libname",
             [i \in 1..3 |-> <<package("pkg1", c1), package("pkg2", c2),
                               package("pkg3", c3)>>[order[i]]],
             <<>>, <<>>)>> :
           c1 \in {using("pkg2"), using("pkg1")}, c2 \in {<<>>, using("pkg1")},
           c3 \in {using("pkg1"), using("pkg2")},
           order \in {o \in [1..3 -> 1..3] : \A i, j \in 1..3 : o[i] = o[j] => i = j} }

\* Packages of the std library that use each other: the one through a
\* library clause for std, the other through work
StdCycleRoots ==
    LET package(name, ctx) == PackageDesignUnit(name, ctx, <<>>, <<ConstC>>, FALSE, <<>>, <<>>)
        env == package("env", <<LibraryClause(<<std_sym>>),
                                 UseClause(<<SelectedAll(Selected(Designator(std_sym),
                                                                  "textio"))>>)>>)
        textio == package("textio", <<UseClause(<<WAll("env")>>)>>)
    IN { <<Library(std_sym, StdLibrary(<<>>)[1].packages \o units, <<>>, <<>>)>> :
           units \in {<<env, textio>>, <<textio, env>>} }

\* Context declarations that refer to themselves or to each other, and a
\* package or an entity that refers to one of them
ContextCycleRoots ==
    LET to(name) == <<ContextReference(<<Selected(Designator(work_sym), name)>>)>>
    IN { <<LibraryOf("libname", packages, contexts, <<>>, entities)>> :
           packages \in {<<>>, <<PackageDesignUnit("pkg", to("ctx1"), <<>>, <<ConstC>>,
                                                   FALSE, <<>>, <<>>)>>},
           contexts \in { <<ContextDeclaration("ctx1", to("ctx1"))>>,
                          <<ContextDeclaration("ctx1", to("ctx2")),
                            ContextDeclaration("ctx2", to("ctx1"))>>,
                          <<ContextDeclaration("ctx1", to("ctx2")),
                            ContextDeclaration("ctx2", <<>>)>> },
           entities \in {<<>>, <<EntityDesignUnit("ent", to("ctx1"), <<>>, <<>>, <<>>, <<>>)>>} }

Roots ==
    ContextCycleRoots \cup StdCycleRoots \cup TwoPackageRoots \cup StdRoots \cup DeclRoots \cup PairRoots \cup SecondaryRoots
        \cup VisibilityRoots \cup ClauseRoots \cup OrderRoots \cup InterfaceRoots
        \cup CycleRoots

(***************************************************************************)
(* The machine.                                                            *)
(***************************************************************************)
Init ==
    /\ root \in Roots
    /\ stack = <<F_analyze>>
    /\ ret = None
    /\ cache = EmptyMap
    /\ locked = {}
    /\ messages = <<>>
    /\ ignored = <<>>
    /\ trace = <<>>
    /\ pc = "running"
    /\ silent = FALSE
    /\ rpc = <<>>
    /\ pushed = <<>>
    /\ earlier = None

Running(fn) == pc = "running" /\ stack # <<>> /\ Top.fn = fn

Analyze == Running("analyze") /\ Apply(analyze(Top))
AnalyzePackage == Running("analyze_package") /\ Apply(analyze_package(Top))
AnalyzePackageDeclarationUnit ==
    Running("analyze_package_declaration_unit")
    /\ Apply(analyze_package_declaration_unit(Top))
AnalyzePackageBodyUnit ==
    Running("analyze_package_body_unit") /\ Apply(analyze_package_body_unit(Top))
NewRootRegion == Running("new_root_region") /\ Apply(new_root_region(Top))
GetPackageRegion == Running("get_package_region") /\ Apply(get_package_region(Top))
AnalyzeContextClause ==
    Running("analyze_context_clause") /\ Apply(analyze_context_clause(Top))
AnalyzeUseClause == Running("analyze_use_clause") /\ Apply(analyze_use_clause(Top))
LookupSelectedName ==
    Running("lookup_selected_name") /\ Apply(lookup_selected_name(Top))
AnalyzeDeclarativePart ==
    Running("analyze_declarative_part") /\ Apply(analyze_declarative_part(Top))
AnalyzeConcurrentPart ==
    Running("analyze_concurrent_part") /\ Apply(analyze_concurrent_part(Top))
AnalyzeEntity == Running("analyze_entity") /\ Apply(analyze_entity(Top))

Next ==
    \/ Analyze
    \/ AnalyzePackage
    \/ AnalyzePackageDeclarationUnit
    \/ AnalyzePackageBodyUnit
    \/ NewRootRegion
    \/ GetPackageRegion
    \/ AnalyzeContextClause
    \/ AnalyzeUseClause
    \/ LookupSelectedName
    \/ AnalyzeDeclarativePart
    \/ AnalyzeConcurrentPart
    \/ AnalyzeEntity

Spec == Init /\ [][Next]_vars

(***************************************************************************)
(* Two runs over the same libraries.  The packages of a library come out   *)
(* of Library::packages() in an order the design does not fix; a second    *)
(* Analyzer is built over the same design root with the packages of the    *)
(* library under analysis in another order, and analyze is run again.      *)
(***************************************************************************)
Orders(n) == {o \in [1..n -> 1..n] : \A i, j \in 1..n : o[i] = o[j] => i = j}

Rerun ==
    /\ pc = "done" /\ IsNone(earlier)
    /\ \E order \in Orders(Len(root[Len(root)].packages)) :
          /\ \E i \in DOMAIN order : order[i] # i
          /\ root' = [root EXCEPT ![Len(root)].packages =
                                     [i \in DOMAIN order |-> @[order[i]]]]
    /\ earlier' = Some(messages)
    /\ stack' = <<F_analyze>>
    /\ ret' = None
    /\ cache' = EmptyMap
    /\ locked' = {}
    /\ messages' = <<>>
    /\ ignored' = <<>>
    /\ trace' = <<>>
    /\ pc' = "running"
    /\ UNCHANGED <<silent, rpc, pushed>>

TwoRunsInit == Init /\ root \in CycleRoots \cup TwoPackageRoots \cup OrderRoots

TwoRunsSpec == TwoRunsInit /\ [][Next \/ Rerun]_vars

(***************************************************************************)
(* The language server's MessageFilter (vhdl_server.rs).  A message has a  *)
(* message_type and a text; a notification has a method, an LSP message    *)
(* type (ERROR = 1, WARNING = 2, INFO = 3, LOG = 4) and the text.  The RPC  *)
(* channel keeps the notifications in the order they were sent.            *)
(***************************************************************************)
MaxPushed == 3

to_lsp_message_type(message_type) ==
    CASE message_type = "Error" -> 1
      [] message_type = "Warning" -> 2
      [] message_type = "Info" -> 3
      [] message_type = "Log" -> 4

\* MessageFilter::push with the silent setting not consulted
push_unfiltered(s, msg) ==
    (IF msg.message_type \in {"Warning", "Error"}
     THEN <<[method |-> "window/showMessage",
             typ |-> to_lsp_message_type(msg.message_type),
             message |-> msg.message]>>
     ELSE <<>>)
    \o <<[method |-> "window/logMessage",
          typ |-> to_lsp_message_type(msg.message_type),
          message |-> msg.message]>>

\* MessageFilter::push: the notifications sent for msg by a filter whose
\* silent field is s
push(s, msg) ==
    (IF ~s /\ msg.message_type \in {"Warning", "Error"}
     THEN <<[method |-> "window/showMessage",
             typ |-> to_lsp_message_type(msg.message_type),
             message |-> msg.message]>>
     ELSE <<>>)
    \o <<[method |-> "window/logMessage",
          typ |-> to_lsp_message_type(msg.message_type),
          message |-> msg.message]>>

\* VHDLServer::message: a filter is made from the settings and msg pushed
Push ==
    /\ Len(pushed) < MaxPushed
    /\ \E msg \in [message_type : {"Error", "Warning", "Info", "Log"},
                    message : {"a", "b"}] :
          /\ rpc' = rpc \o push(silent, msg)
          /\ pushed' = Append(pushed, msg)
    /\ UNCHANGED <<root, stack, ret, cache, locked, messages, ignored, trace,
                   pc, silent, earlier>>

\* the server as started by main with either value of --silent; no
\* analysis is under way
ServerInit ==
    /\ silent \in BOOLEAN
    /\ rpc = <<>>
    /\ pushed = <<>>
    /\ root = <<>>
    /\ stack = <<>>
    /\ ret = None
    /\ cache = EmptyMap
    /\ locked = {}
    /\ messages = <<>>
    /\ ignored = <<>>
    /\ trace = <<>>
    /\ pc = "done"
    /\ earlier = None

ServerSpec == ServerInit /\ [][Push]_vars

(***************************************************************************)
(* What the properties below speak about.                                  *)
(***************************************************************************)
\* The library under analysis (the standard library, if any, comes first)
MainLibrary == root[Len(root)]

Sentinel(key) == key \in DOMAIN cache /\ IsNone(cache[key])

Count(P(_), seq) == Cardinality({i \in 1..Len(seq) : P(seq[i])})

\* the context clause ends in a use clause of one name, prefixed by package q
UsesPackage(ctx, q) ==
    /\ Len(ctx) >= 1
    /\ \A i \in 1..(Len(ctx) - 1) : ctx[i].k = "Library"
    /\ LET item == ctx[Len(ctx)]
       IN /\ item.k = "Use"
          /\ Len(item.names) = 1
          /\ item.names[1].k \in {"Selected", "SelectedAll"}
          /\ item.names[1].prefix.k = "Selected"
          /\ item.names[1].prefix.suffix = q

\* a deferred constant of the package has no full declaration in its body,
\* or its body declares a constant twice
Lacking(p) ==
    \/ \E i \in 1..Len(p.decl) :
          /\ DeclClass(p.decl[i]) = "DeferredConstant"
          /\ ~(p.hasBody /\ \E j \in 1..Len(p.bodyDecl) :
                                /\ DeclClass(p.bodyDecl[j]) = "FullConstant"
                                /\ p.bodyDecl[j].ident = p.decl[i].ident)
    \/ \E i, j \in 1..Len(p.bodyDecl) :
          /\ i < j /\ p.bodyDecl[i].kind # "Use"
          /\ p.bodyDecl[i].ident = p.bodyDecl[j].ident

\* exactly two packages that use each other, and nothing else wrong with them
MutualUse ==
    /\ Len(MainLibrary.packages) = 2
    /\ MainLibrary.contexts = <<>> /\ MainLibrary.instances = <<>>
    /\ LET p == MainLibrary.packages[1]
           q == MainLibrary.packages[2]
       IN /\ UsesPackage(p.ctx, q.name) /\ UsesPackage(q.ctx, p.name)
          /\ ~Lacking(p) /\ ~Lacking(q)

\* C1: two packages whose context clauses use each other through a
\* package-prefixed selected name give exactly one diagnostic in the whole
\* pass, a 'Found circular dependencies when using package' error, in
\* either visit order.
C1_OneCircularError ==
    (pc = "done" /\ MutualUse) =>
        /\ Len(messages) = 1
        /\ messages[1].sev = "error"
        /\ messages[1].msg = MsgCircularUsing
        /\ messages[1].arg \in {MainLibrary.packages[1].name, MainLibrary.packages[2].name}

C1_Witness ==
    /\ pc = "done" /\ MutualUse
    /\ MainLibrary.packages[1].name = "pkg2"
    /\ Len(messages) = 1 /\ messages[1].arg = "pkg2"
    /\ \E i \in 1..Len(trace) : trace[i].ev = "lock" /\ ~trace[i].ok

\* C2: analyze terminates for every design root: no chain of nested
\* on-demand resolutions grows until the call stack is exhausted.
C2_AnalyzeTerminates == pc # "overflow"

\* the keys whose analyze_package_declaration_unit call holds the lock
Holders ==
    {Key(stack[i].lib, stack[i].pkg) :
        i \in {n \in 1..Len(stack) :
                 /\ stack[n].fn = "analyze_package_declaration_unit"
                 /\ stack[n].pc # "start"}}

BetweenUnits == pc = "running" /\ Len(stack) = 1 /\ Top.fn = "analyze" /\ Top.pc = "unit"

\* C3: the lock never leaks: a key is locked only while the call that
\* acquired it is active, so the lock set is empty between the top-level
\* units and when analyze has returned.
C3_LockNeverLeaks ==
    /\ pc \in {"running", "done"} => locked \subseteq Holders
    /\ (BetweenUnits \/ pc = "done") => locked = {}

C3_Witness ==
    /\ pc = "done" /\ locked = {}
    /\ \E i \in 1..Len(trace) : trace[i].ev = "lock" /\ trace[i].ok /\ ~trace[i].out
    /\ \E i \in 1..Len(trace) : trace[i].ev = "lock" /\ ~trace[i].ok

\* C4: the cache is first-write-wins: an entry, once stored, is never
\* changed or removed by a later set_region.
C4_FirstWriteWins ==
    [][\A key \in DOMAIN cache : key \in DOMAIN cache' /\ cache'[key] = cache[key]]_vars

\* a package whose sentinel was recorded was later analyzed to the end, so
\* a second set_region (with a region) was made for its key
C4_Witness ==
    /\ pc = "done"
    /\ \E i, j \in 1..Len(trace) :
          /\ i < j
          /\ trace[i].ev = "lock" /\ ~trace[i].ok
          /\ trace[j].ev = "lock" /\ trace[j].ok /\ trace[j].key = trace[i].key
          /\ Sentinel(trace[i].key)

\* C5: once the sentinel is recorded for a key, a get_package_region call
\* for the key returns None at once, without another analysis of the
\* package declaration.
C5_SentinelNotRecomputed ==
    [][(Running("get_package_region") /\ Top.pc = "start"
          /\ Sentinel(Key(Top.lib, Top.pkg)))
       => (Len(stack') < Len(stack) /\ ret' = None)]_vars

(***************************************************************************)
(* One package with same-named declarations.                               *)
(***************************************************************************)
OnePackage == Len(root) = 1 /\ Len(MainLibrary.packages) = 1

ThePkg == MainLibrary.packages[1]

DeclPos(i) == Pos(MainLibrary.name, ThePkg.name, "decl", i, 0, 0)
BodyPos(i) == Pos(MainLibrary.name, ThePkg.name, "body", i, 0, 0)

\* the diagnostics for designator d at positions of the package's part
About(d, part) ==
    {i \in 1..Len(messages) : messages[i].arg = d /\ messages[i].pos.part = part}

Duplicates(d, part) == {i \in About(d, part) : messages[i].msg = MsgDuplicate}

\* overloadable by the language: subprograms, aliases of them and
\* enumeration literals
Overloadable(d) ==
    \/ d.kind \in {"SubprogramDeclaration", "SubprogramBody"}
    \/ d.kind = "Alias" /\ d.def = "signature"
    \/ d.kind = "Type" /\ d.def = "Enumeration" /\ d.ident # "a"

\* declaration y is the completion of declaration x
Completes(x, y) ==
    /\ x.ident = y.ident
    /\ <<DeclClass(x), DeclClass(y)>> \in
        { <<"IncompleteType", "FullType">>, <<"IncompleteType", "ProtectedType">>,
          <<"ProtectedType", "ProtectedBody">>, <<"DeferredConstant", "FullConstant">> }

\* the region of the package declaration after the pass
FinalRegion == cache[Key(MainLibrary.name, ThePkg.name)][1]

\* the package declares a by n >= 2 declarations, none of them overloadable
SameNameNonOverloadable ==
    /\ OnePackage /\ Len(ThePkg.decl) >= 2
    /\ \A i \in 1..Len(ThePkg.decl) :
          ThePkg.decl[i].ident = "a" /\ ~Overloadable(ThePkg.decl[i])

DuplicatesOfFirst ==
    /\ Cardinality(Duplicates("a", "decl")) = Len(ThePkg.decl) - 1
    /\ \A k \in 2..Len(ThePkg.decl) :
          \E i \in Duplicates("a", "decl") :
              /\ messages[i].sev = "error"
              /\ messages[i].pos = DeclPos(k)
              /\ messages[i].related = Some(DeclPos(1))
    /\ "a" \in DOMAIN FinalRegion.imm
    /\ Len(FinalRegion.imm["a"]) = 1
    /\ FinalRegion.imm["a"][1].decl_pos = Some(DeclPos(1))

\* C6 as stated: n non-overloadable declarations of one designator in one
\* region give exactly n-1 Duplicate errors, one at each declaration after
\* the first with the first as related position, and the first stays the
\* binding.
C6_EveryLaterIsDuplicate ==
    (pc = "done" /\ SameNameNonOverloadable) => DuplicatesOfFirst

FirstStays ==
    /\ DeclClass(ThePkg.decl[1]) # "ProtectedBody"
    /\ \A k \in 2..Len(ThePkg.decl) : ~Completes(ThePkg.decl[1], ThePkg.decl[k])

\* C6: n non-overloadable declarations of one designator in one region, the
\* first of which is not a protected type body and is completed by none of
\* the others, give exactly n-1 Duplicate errors, one at each declaration
\* after the first with the first as related position, and the first stays
\* the binding; a declaration that completes the first is no duplicate and
\* becomes the binding.
C6_DuplicatesPointToFirst ==
    /\ (pc = "done" /\ SameNameNonOverloadable /\ FirstStays) => DuplicatesOfFirst
    /\ (pc = "done" /\ SameNameNonOverloadable /\ Len(ThePkg.decl) = 2
          /\ Completes(ThePkg.decl[1], ThePkg.decl[2])) =>
            /\ Duplicates("a", "decl") = {}
            /\ FinalRegion.imm["a"][1].decl_pos = Some(DeclPos(2))

C6_Witness ==
    /\ pc = "done" /\ SameNameNonOverloadable /\ FirstStays
    /\ Len(ThePkg.decl) = 3
    /\ Cardinality(Duplicates("a", "decl")) = 2

\* declaration x declares designator d, as its name or as a literal of it
Declares(x, d) == x.ident = d \/ \E n \in 1..Len(x.lits) : x.lits[n] = d

\* the package declares designator a by exactly two declarations
TwoOfOneName ==
    /\ OnePackage /\ Len(ThePkg.decl) = 2
    /\ Declares(ThePkg.decl[1], "a") /\ Declares(ThePkg.decl[2], "a")

BothOverloadable == Overloadable(ThePkg.decl[1]) /\ Overloadable(ThePkg.decl[2])

\* the position of what declaration i declares as a
APos(i) == IF ThePkg.decl[i].ident = "a" THEN DeclPos(i) ELSE [DeclPos(i) EXCEPT !.j = 1]

NoDiagnosticIffOverloadable ==
    /\ About("a", "decl") = {} <=> BothOverloadable
    /\ ~BothOverloadable =>
          \E i \in Duplicates("a", "decl") :
              messages[i].sev = "error" /\ messages[i].pos = APos(2)

\* C7 as stated: two declarations of one designator in one region give no
\* diagnostic iff both are overloadable, and otherwise a Duplicate error at
\* the later one.
C7_NoDiagnosticIffBothOverloadable ==
    (pc = "done" /\ TwoOfOneName) => NoDiagnosticIffOverloadable

\* C7: two declarations of one designator in one region, the first not a
\* protected type body and the second not the completion of the first,
\* give no diagnostic iff both are overloadable, and otherwise a Duplicate
\* error at the later one, whichever comes first; a completion of the
\* first is no duplicate.
C7_OverloadableOrDuplicate ==
    /\ (pc = "done" /\ TwoOfOneName
          /\ DeclClass(ThePkg.decl[1]) # "ProtectedBody"
          /\ ~Completes(ThePkg.decl[1], ThePkg.decl[2])) => NoDiagnosticIffOverloadable
    /\ (pc = "done" /\ TwoOfOneName /\ Completes(ThePkg.decl[1], ThePkg.decl[2])) =>
          Duplicates("a", "decl") = {}

C7_Witness ==
    /\ pc = "done" /\ TwoOfOneName
    /\ Overloadable(ThePkg.decl[1]) /\ ~Overloadable(ThePkg.decl[2])
    /\ DeclClass(ThePkg.decl[2]) = "FullType"
    /\ Cardinality(Duplicates("a", "decl")) = 1

\* the regions of a state: those the active calls work on, the one returned
\* last and those of the cache
StateRegions ==
    {stack[i].region : i \in {n \in 1..Len(stack) : "region" \in DOMAIN stack[n]}}
    \cup {stack[i].primary : i \in {n \in 1..Len(stack) : "primary" \in DOMAIN stack[n]}}
    \cup {stack[i].body : i \in {n \in 1..Len(stack) : "body" \in DOMAIN stack[n]}}
    \cup {cache[key][1] : key \in {c \in DOMAIN cache : IsSome(cache[c])}}

WellFormedEntry(entry) ==
    /\ Len(entry) >= 1
    /\ Len(entry) = 1 \/ AllOverloadable(entry)

RECURSIVE WellFormed(_)
WellFormed(r) ==
    /\ \A d \in DOMAIN r.imm : WellFormedEntry(r.imm[d])
    /\ IsSome(r.parent) => WellFormed(r.parent[1])

\* C8: every entry of a region's immediate map is a single declaration or
\* a set of declarations all of which are overloadable.
C8_EntriesSingleOrOverloadable == \A r \in StateRegions : WellFormed(r)

C8_Witness ==
    /\ pc = "done" /\ OnePackage
    /\ "a" \in DOMAIN FinalRegion.imm /\ Len(FinalRegion.imm["a"]) = 2
    /\ Duplicates("a", "decl") # {}

\* the diagnostics for designator d in package p
AboutIn(d, p) ==
    {i \in 1..Len(messages) :
        /\ messages[i].arg = d
        /\ messages[i].pos.lib = MainLibrary.name /\ messages[i].pos.unit = p.name}

Named(decls, d) == {i \in 1..Len(decls) : Declares(decls[i], d)}

\* C9: a deferred constant of a package declaration with a full
\* declaration in the package body gives no diagnostic; with none it gives
\* exactly one, the 'lacks corresponding full constant declaration' error
\* at the deferred declaration.
C9_DeferredConstantChecked ==
    pc = "done" =>
        \A n \in 1..Len(MainLibrary.packages) :
            LET p == MainLibrary.packages[n]
            IN \A i \in 1..Len(p.decl) :
                 (DeclClass(p.decl[i]) = "DeferredConstant"
                    /\ Named(p.decl, p.decl[i].ident) = {i}) =>
                   LET d == p.decl[i].ident
                       inBody == IF p.hasBody THEN Named(p.bodyDecl, d) ELSE {}
                   IN /\ (\E j \in inBody : inBody = {j}
                             /\ DeclClass(p.bodyDecl[j]) = "FullConstant")
                           => AboutIn(d, p) = {}
                      /\ inBody = {} =>
                           \E m \in AboutIn(d, p) :
                               /\ AboutIn(d, p) = {m}
                               /\ messages[m].sev = "error"
                               /\ messages[m].msg = MsgLacksFull
                               /\ messages[m].pos = Pos(MainLibrary.name, p.name, "decl", i, 0, 0)

AllAbout(d) == About(d, "decl") \cup About(d, "body")

\* the package body declares a by a constant without initializer at j,
\* followed or not by its full declaration, and by nothing else
MisplacedAt(j, followed) ==
    /\ OnePackage /\ ThePkg.hasBody
    /\ Named(ThePkg.decl, "a") = {}
    /\ j \in 1..Len(ThePkg.bodyDecl)
    /\ DeclClass(ThePkg.bodyDecl[j]) = "DeferredConstant"
    /\ IF followed
       THEN /\ Named(ThePkg.bodyDecl, "a") = {j, j + 1}
            /\ j + 1 <= Len(ThePkg.bodyDecl)
            /\ DeclClass(ThePkg.bodyDecl[j + 1]) = "FullConstant"
       ELSE Named(ThePkg.bodyDecl, "a") = {j}

\* the package declaration declares a by a deferred constant and, at j, by
\* its full declaration, and the body does not declare a
FullInDeclarationAt(j) ==
    /\ OnePackage
    /\ ThePkg.hasBody => Named(ThePkg.bodyDecl, "a") = {}
    /\ j \in 2..Len(ThePkg.decl)
    /\ Named(ThePkg.decl, "a") = {j - 1, j}
    /\ DeclClass(ThePkg.decl[j - 1]) = "DeferredConstant"
    /\ DeclClass(ThePkg.decl[j]) = "FullConstant"

OnlyDiagnostic(at, msg) ==
    \E m \in AllAbout("a") :
        /\ AllAbout("a") = {m}
        /\ messages[m].sev = "error" /\ messages[m].msg = msg /\ messages[m].pos = at

FullInDeclarationOnly ==
    \A j \in 1..MaxDecls : FullInDeclarationAt(j) => OnlyDiagnostic(DeclPos(j), MsgFullInDecl)

OnlyOf(decls, cs) == \A i \in Named(decls, "a") : DeclClass(decls[i]) \in cs

\* the package declares a by protected type declarations and bodies only
ProtectedOnly ==
    /\ OnePackage
    /\ OnlyOf(ThePkg.decl, {"ProtectedType", "ProtectedBody"})
    /\ ThePkg.hasBody => OnlyOf(ThePkg.bodyDecl, {"ProtectedType", "ProtectedBody"})

MsgsAt(at, msg) ==
    {m \in 1..Len(messages) :
        messages[m].pos = at /\ messages[m].msg = msg /\ messages[m].arg = "a"}

Entities == MainLibrary.entities

\* the diagnostics for designator d at positions of unit u
AboutUnit(d, u) ==
    {m \in 1..Len(messages) : messages[m].arg = d /\ messages[m].pos.unit = u}

\* exactly the error and the hint of an incomplete type left without its
\* full declaration, both at the position at
MissingFullTypeOnly(ms, at) ==
    /\ Cardinality(ms) = 2
    /\ \A m \in ms : messages[m].pos = at
    /\ \E m \in ms : messages[m].sev = "error" /\ messages[m].msg = MsgMissingFullType
    /\ \E m \in ms : messages[m].sev = "hint" /\ messages[m].msg = MsgHintFullType

PrimaryPos(u, gs, ps, ds, d) ==
    IF \E n \in 1..Len(gs) : gs[n] = d
    THEN Some(Pos(MainLibrary.name, u, "generic", CHOOSE n \in 1..Len(gs) : gs[n] = d, 0, 0))
    ELSE IF \E n \in 1..Len(ps) : ps[n] = d
    THEN Some(Pos(MainLibrary.name, u, "port", CHOOSE n \in 1..Len(ps) : ps[n] = d, 0, 0))
    ELSE IF Named(ds, d) # {}
    THEN LET i == CHOOSE k \in Named(ds, d) : \A l \in Named(ds, d) : k <= l
         IN IF DeclClass(ds[i]) \in {"FullConstant", "FullType"} /\ ds[i].ident = d
            THEN Some(Pos(MainLibrary.name, u, "decl", i, 0, 0))
            ELSE None
    ELSE None

\* every declaration of the secondary declarative part ds (at positions of
\* unit u, part) of a name the primary unit declares at primary(name) is
\* reported as a duplicate of the primary unit's declaration
DuplicatesOfPrimary(ds, u, part, primary(_)) ==
    \A j \in 1..Len(ds) :
        (ds[j].kind # "Use" /\ IsSome(primary(ds[j].ident))) =>
            \E m \in 1..Len(messages) :
                /\ messages[m].sev = "error" /\ messages[m].msg = MsgDuplicate
                /\ messages[m].arg = ds[j].ident
                /\ messages[m].pos = Pos(MainLibrary.name, u, part, j, 0, 0)
                /\ messages[m].related = primary(ds[j].ident)

RECURSIVE Leftmost(_)
Leftmost(name) ==
    IF name.k = "Designator" THEN name.d
    ELSE IF name.k \in {"Selected", "SelectedAll"} THEN Leftmost(name.prefix)
    ELSE ""

RECURSIVE LeftmostPos(_, _)
LeftmostPos(name, pos) ==
    IF name.k \in {"Selected", "SelectedAll"}
    THEN LeftmostPos(name.prefix, PrefixPos(pos))
    ELSE pos

\* the clause brings the name x in by itself: a library clause naming x or
\* a use clause of a name work.x
Introduces(names, libs, x) ==
    \/ \E n \in 1..Len(libs) : libs[n] = x
    \/ \E n \in 1..Len(names) : names[n] = Selected(Designator(work_sym), x)

IntroducedBy(ctx, decl, x) ==
    \/ \E i \in 1..Len(ctx) : Introduces(ctx[i].names, ctx[i].libs, x)
    \/ \E i \in 1..Len(decl) : Introduces(decl[i].names, <<>>, x)

\* the first clause of the unit (context clause ctx, then declarative part
\* decl) is a use clause of one name whose leftmost designator is x: the
\* position of that designator
RefersFirst(ctx, decl, x) ==
    IF ctx # <<>>
    THEN ctx[1].k = "Use" /\ Leftmost(ctx[1].names[1]) = x
    ELSE decl # <<>> /\ Leftmost(decl[1].names[1]) = x

RefPos(ctx, decl, unit, ctxpart, declpart) ==
    IF ctx # <<>>
    THEN LeftmostPos(ctx[1].names[1], Pos(MainLibrary.name, unit, ctxpart, 1, 1, 0))
    ELSE LeftmostPos(decl[1].names[1], Pos(MainLibrary.name, unit, declpart, 1, 1, 0))

NoDeclarationAt(x, at) ==
    /\ \E m \in 1..Len(messages) :
          messages[m] = Error(at, MsgNoDecl, x)
    /\ Cardinality({m \in 1..Len(messages) : messages[m].pos = at}) = 1

\* C14: a name brought in by the library or use clauses of one
\* architecture, in its context clause or its declarative part, is not
\* visible in the other architecture of the entity: a use clause there
\* that starts with the name gives 'No declaration of <name>', whichever
\* of the two is visited first.
C14_SiblingsShareNoImports ==
    pc = "done" =>
        \A e \in 1..Len(Entities) :
            LET ent == Entities[e]
            IN \A n \in 1..Len(ent.architectures) :
               \A m \in 1..Len(ent.architectures) :
               \A x \in {"usepkg", "libname"} :
                  LET arch == ent.architectures[n]
                      other == ent.architectures[m]
                  IN (/\ n # m /\ ent.ctx = <<>>
                      /\ IntroducedBy(other.ctx, other.decl, x)
                      /\ RefersFirst(arch.ctx, arch.decl, x)) =>
                       NoDeclarationAt(x, RefPos(arch.ctx, arch.decl, arch.name, "ctx", "decl"))

C14_Witness ==
    /\ pc = "done" /\ Len(Entities) = 1 /\ Entities[1].ctx = <<>>
    /\ Len(Entities[1].architectures) = 2
    /\ Entities[1].architectures[1].decl = <<UseDecl(Clauses.work_usepkg.names)>>
    /\ Entities[1].architectures[1].ctx = <<Clauses.libname>>
    /\ Entities[1].architectures[2].ctx = <<>>
    /\ Entities[1].architectures[2].decl = <<UseDecl(Clauses.usepkg_c.names)>>
    /\ messages = <<Error(Pos("libname", "rtl2", "decl", 1, 1, 2), MsgNoDecl, "usepkg")>>

\* the packages with a body
Bodies == {n \in 1..Len(MainLibrary.packages) : MainLibrary.packages[n].hasBody}

\* the diagnostics at the i-th item of a part of a unit
MessagesAt(unit, part, i) ==
    {m \in 1..Len(messages) :
        /\ messages[m].pos.lib = MainLibrary.name /\ messages[m].pos.unit = unit
        /\ messages[m].pos.part = part /\ messages[m].pos.i = i}

\* the use clauses of a part that start with the name x and ask the
\* package usepkg for nothing but its constant c
Referring(items, x) ==
    {i \in 1..Len(items) :
        /\ items[i].names # <<>>
        /\ ("k" \in DOMAIN items[i] => items[i].k = "Use")
        /\ Leftmost(items[i].names[1]) = x
        /\ \A j \in 1..Len(items[i].names) :
              (/\ items[i].names[j].k = "Selected"
               /\ items[i].names[j].prefix = Designator("usepkg"))
                 => items[i].names[j].suffix = "c"}

\* C15: a name brought in by a use clause in the declarative part of a
\* package declaration is not visible in the context clause of the
\* package body, where a use clause starting with it gives 'No declaration
\* of <name>', and is visible in the declarative part of the body.
C15_BodySeesDeclarationsNotImports ==
    pc = "done" =>
        \A n \in Bodies :
            LET p == MainLibrary.packages[n]
            IN (/\ p.ctx = <<>>
                /\ \A i \in 1..Len(p.decl) : p.decl[i].kind = "Use"
                /\ IntroducedBy(<<>>, p.decl, "usepkg")) =>
                 /\ RefersFirst(p.bodyCtx, <<>>, "usepkg") =>
                      NoDeclarationAt("usepkg", RefPos(p.bodyCtx, <<>>, p.name, "bodyctx", ""))
                 /\ \A j \in 1..Len(p.bodyDecl) :
                      (p.bodyDecl[j].kind = "Use"
                         /\ Leftmost(p.bodyDecl[j].names[1]) = "usepkg") =>
                        MessagesAt(p.name, "body", j) = {}

C15_Witness ==
    /\ pc = "done" /\ Bodies = {2}
    /\ MainLibrary.packages[2].ctx = <<>>
    /\ MainLibrary.packages[2].decl = <<UseDecl(Clauses.work_usepkg.names)>>
    /\ MainLibrary.packages[2].bodyCtx = <<Clauses.usepkg_c>>
    /\ MainLibrary.packages[2].bodyDecl = <<UseDecl(Clauses.usepkg_c.names)>>
    /\ messages = <<Error(Pos("libname", "pkg", "bodyctx", 1, 1, 2), MsgNoDecl, "usepkg")>>

\* the context clause of the primary unit makes x visible
PrimaryBrings(ctx, x) ==
    \/ IntroducedBy(ctx, <<>>, x)
    \/ x = "usepkg" /\ ctx = <<Clauses.libname, Clauses.libname_usepkg>>

\* in a secondary unit (context clause ctx at ctxpart, declarative part decl
\* at declpart) of a primary unit with the context clause pctx, the use
\* clauses that start with a name of pctx, and those of the declarative
\* part that start with a library of ctx, give no diagnostic
SecondarySees(pctx, ctx, decl, unit, ctxpart, declpart) ==
    /\ \A x \in {"usepkg", "libname"} :
          PrimaryBrings(pctx, x) =>
             /\ \A i \in Referring(ctx, x) : MessagesAt(unit, ctxpart, i) = {}
             /\ \A i \in Referring(decl, x) : MessagesAt(unit, declpart, i) = {}
    /\ IntroducedBy(ctx, <<>>, "libname") =>
          \A i \in Referring(decl, "libname") : MessagesAt(unit, declpart, i) = {}

\* C16: the libraries and packages made visible by the context clause of
\* an entity or a package declaration are visible in the context clause
\* and in the declarative part of each architecture or of the package
\* body, and a library clause in the context clause of a secondary unit is
\* visible in that unit's declarative part.
C16_SecondarySeesPrimaryContext ==
    pc = "done" =>
        /\ \A n \in Bodies :
              LET p == MainLibrary.packages[n]
              IN (\A i \in 1..Len(p.decl) : p.decl[i].kind = "Use") =>
                    SecondarySees(p.ctx, p.bodyCtx, p.bodyDecl, p.name, "bodyctx", "body")
        /\ \A e \in 1..Len(Entities) : \A n \in 1..Len(Entities[e].architectures) :
              LET arch == Entities[e].architectures[n]
              IN SecondarySees(Entities[e].ctx, arch.ctx, arch.decl, arch.name, "ctx", "decl")

C16_Witness ==
    /\ pc = "done" /\ Len(Entities) = 1
    /\ Entities[1].ctx = <<Clauses.libname, Clauses.libname_usepkg>>
    /\ Entities[1].architectures[1].ctx = <<Clauses.usepkg_c>>
    /\ Entities[1].architectures[1].decl = <<UseDecl(Clauses.libname_usepkg.names)>>
    /\ Entities[1].architectures[2].ctx = <<Clauses.libname>>
    /\ Entities[1].architectures[2].decl = <<UseDecl(Clauses.libname_usepkg.names)>>
    /\ Entities[1].ctx # <<>> /\ messages = <<>>

(***************************************************************************)
(* Library clauses, use clauses and context references                     *)
(***************************************************************************)
\* the context clauses that are reported: of every package declaration,
\* context declaration and entity of the library
ClauseParts ==
    {[unit |-> MainLibrary.packages[n].name, part |-> "ctx",
      items |-> MainLibrary.packages[n].ctx] : n \in 1..Len(MainLibrary.packages)}
    \cup {[unit |-> MainLibrary.contexts[n].name, part |-> "items",
           items |-> MainLibrary.contexts[n].items] : n \in 1..Len(MainLibrary.contexts)}
    \cup {[unit |-> Entities[n].name, part |-> "ctx",
           items |-> Entities[n].ctx] : n \in 1..Len(Entities)}

\* the names of the items of c that are library names: item and name index
LibraryNamesOf(c) ==
    {ij \in (1..Len(c.items)) \X (1..3) :
        c.items[ij[1]].k = "Library" /\ ij[2] <= Len(c.items[ij[1]].libs)}

NamePos(c, i, j) == Pos(MainLibrary.name, c.unit, c.part, i, j, 0)

\* the diagnostics at exactly the position at
Exactly(at) == {m \in 1..Len(messages) : messages[m].pos = at}

\* the names the items under analysis may bring in
ProbeNames == {work_sym, "libname", "missing", "usepkg"}

\* the context clause analysis is about to take a library clause
AtLibraryClause ==
    /\ Running("analyze_context_clause") /\ Top.pc = "item"
    /\ Top.i <= Len(Top.items) /\ Top.items[Top.i].k = "Library"

\* C17: a library clause naming 'work' gives exactly one hint 'Library
\* clause not necessary for current working library' at that name and no
\* error, leaves the region as it was, and the names and items after it
\* are still processed.
C17_WorkLibraryHint ==
    /\ pc = "done" =>
          \A c \in ClauseParts : \A ij \in LibraryNamesOf(c) :
             c.items[ij[1]].libs[ij[2]] = work_sym =>
                /\ \A m \in Exactly(NamePos(c, ij[1], ij[2])) :
                      messages[m] = Hint(NamePos(c, ij[1], ij[2]), MsgWorkHint, "")
                /\ Cardinality(Exactly(NamePos(c, ij[1], ij[2]))) = 1
                /\ \A kl \in LibraryNamesOf(c) :
                      (/\ kl[1] > ij[1] \/ (kl[1] = ij[1] /\ kl[2] > ij[2])
                       /\ c.items[kl[1]].libs[kl[2]] = "missing") =>
                         Exactly(NamePos(c, kl[1], kl[2])) # {}
    /\ AtLibraryClause =>
          LET libs == Top.items[Top.i].libs
              r == LibraryNames(Top.region, libs, At(Top.base, Top.i, 0), 1)
          IN /\ lookup(r.region, work_sym) = lookup(Top.region, work_sym)
             /\ (\A j \in 1..Len(libs) : libs[j] = work_sym) =>
                   /\ r.region = Top.region
                   /\ \A m \in 1..Len(r.msgs) : r.msgs[m].sev = "hint"

C17_Witness ==
    /\ pc = "done" /\ Len(Entities) = 1
    /\ Entities[1].ctx = <<LibraryClause(<<"missing", work_sym, "libname">>),
                           Clauses.libname_usepkg>>
    /\ \E m \in 1..Len(messages) :
          messages[m] = Hint(Pos("libname", "ent", "ctx", 1, 2, 0), MsgWorkHint, "")
    /\ MessagesAt("ent", "ctx", 2) = {}

\* x is the library of the design root that lookup finds in region r
SeesLibrary(r, x) ==
    /\ IsSome(lookup(r, x))
    /\ TheDecl(lookup(r, x)[1]).decl.k = "Library"
    /\ TheDecl(lookup(r, x)[1]).decl.lib = x

\* C18: a library clause naming a library other than 'work' that is not
\* in the design root gives exactly one 'No such library' error at that
\* name and no binding; naming an existing library it makes the library
\* visible under its name and gives nothing. It is the same in the context
\* clause of a design unit and in a context declaration.
C18_LibraryClauseLooksUp ==
    /\ pc = "done" =>
          \A c \in ClauseParts : \A ij \in LibraryNamesOf(c) :
             LET x == c.items[ij[1]].libs[ij[2]]
                 at == NamePos(c, ij[1], ij[2])
             IN x # work_sym =>
                  IF x \in LibNames
                  THEN /\ Exactly(at) = {}
                       /\ (ij[1] < Len(c.items)
                             /\ c.items[ij[1] + 1] = UseClause(<<Selected(Designator(x), "usepkg")>>))
                            => MessagesAt(c.unit, c.part, ij[1] + 1) = {}
                  ELSE /\ Cardinality(Exactly(at)) = 1
                       /\ \A m \in Exactly(at) : messages[m] = Error(at, MsgNoLibrary, x)
                       /\ (ij[1] < Len(c.items)
                             /\ c.items[ij[1] + 1] = UseClause(<<Selected(Designator(x), "usepkg")>>))
                            => NoDeclarationAt(x, Pos(MainLibrary.name, c.unit, c.part,
                                                      ij[1] + 1, 1, 2))
    /\ AtLibraryClause =>
          LET libs == Top.items[Top.i].libs
              r == LibraryNames(Top.region, libs, At(Top.base, Top.i, 0), 1)
          IN \A x \in ProbeNames :
                IF x # work_sym /\ x \in LibNames /\ \E j \in 1..Len(libs) : libs[j] = x
                THEN SeesLibrary(r.region, x)
                ELSE lookup(r.region, x) = lookup(Top.region, x)

C18_Witness ==
    /\ pc = "done" /\ Len(MainLibrary.contexts) = 2
    /\ MainLibrary.contexts[2].items =
          <<LibraryClause(<<"missing">>),
            UseClause(<<Selected(Designator("missing"), "usepkg")>>)>>
    /\ \E m \in 1..Len(messages) :
          messages[m] = Error(Pos("libname", "ctx2", "items", 1, 1, 0), MsgNoLibrary, "missing")
    /\ \E m \in 1..Len(messages) :
          messages[m] = Error(Pos("libname", "pkg", "ctx", 2, 1, 2), MsgNoDecl, "missing")

\* the name is a chain of selections that starts at a designator
RECURSIVE SelectedChain(_)
SelectedChain(name) ==
    \/ name.k = "Designator"
    \/ name.k \in {"Selected", "SelectedAll"} /\ SelectedChain(name.prefix)

\* a name a use clause takes for a selected name, and one a context
\* reference takes for one
UseForm(name) == name.k \in {"Selected", "SelectedAll"} /\ SelectedChain(name)
ReferenceForm(name) == name.k = "Selected" /\ SelectedChain(name)

\* the i-th item of c is of kind k, and has as many diagnostics msg at the
\* position of the item as names that are not of the form, and no other
\* diagnostic there
OnePerName(c, i, k, msg, Form(_)) ==
    c.items[i].k = k =>
        LET at == NamePos(c, i, 0)
        IN /\ \A m \in Exactly(at) : messages[m] = Error(at, msg, "")
           /\ Cardinality(Exactly(at)) =
                 Cardinality({j \in 1..Len(c.items[i].names) : ~Form(c.items[i].names[j])})

\* the context clause analysis has the region of a use clause back
AfterUseClause ==
    /\ Running("analyze_context_clause") /\ Top.pc = "used"

\* C19: every name of a use clause that is not a selected name gives
\* exactly one 'Use clause must be a selected name' error at the position
\* of the clause and brings nothing in, every name of a context reference
\* that is not prefix.suffix gives exactly one 'Context reference must be a
\* selected name' error, and the names and the items after it are still
\* processed.
C19_MustBeSelectedName ==
    /\ pc = "done" =>
          \A c \in ClauseParts : \A i \in 1..Len(c.items) :
             /\ OnePerName(c, i, "Use", MsgUseSelected, UseForm)
             /\ OnePerName(c, i, "Context", MsgCtxSelected, ReferenceForm)
             /\ (/\ i < Len(c.items) /\ c.items[i + 1] = Clauses.usepkg_c
                 /\ c.items[i].k \in {"Use", "Context"}
                 /\ \E j \in 1..Len(c.items[i].names) : ~SelectedChain(c.items[i].names[j])
                       \/ c.items[i].names[j].k = "Designator"
                 /\ \E j \in 1..Len(c.items[i].names) :
                       c.items[i].names[j] \in {Selected(Designator(work_sym), "usepkg"),
                                                Selected(Designator(work_sym), "ctx")})
                  => MessagesAt(c.unit, c.part, i + 1) = {}
    /\ AfterUseClause =>
          \A x \in ProbeNames :
             (\A j \in 1..Len(Top.items[Top.i].names) :
                 LET name == Top.items[Top.i].names[j]
                 IN ~UseForm(name) \/ (name.k = "Selected" /\ name.suffix # x))
               => lookup(ret, x) = lookup(Top.region, x)

C19_Witness ==
    /\ pc = "done" /\ Len(MainLibrary.packages) = 2
    /\ MainLibrary.packages[2].ctx =
          <<UseClause(<<OtherName, Selected(Designator(work_sym), "usepkg"),
                        Designator("usepkg")>>),
            Clauses.usepkg_c>>
    /\ Cardinality({m \in 1..Len(messages) :
                      messages[m] = Error(Pos("libname", "pkg", "ctx", 1, 0, 0),
                                          MsgUseSelected, "")}) = 2
    /\ MessagesAt("pkg", "ctx", 2) = {}

(***************************************************************************)
(* Selected names through a package                                        *)
(***************************************************************************)
\* the packages whose context clause is one use clause `use work.pkg.x`,
\* with pkg a package of the library: <<user, pkg, x>>
Through ==
    {t \in (1..Len(MainLibrary.packages)) \X (1..Len(MainLibrary.packages)) \X ProbeNames
       \cup (1..Len(MainLibrary.packages)) \X (1..Len(MainLibrary.packages)) \X {"c"} :
        /\ MainLibrary.name = "libname" /\ Len(root) = 1
        /\ MainLibrary.packages[t[1]].name = "user"
        /\ MainLibrary.packages[t[1]].ctx =
              <<UseClause(<<W(MainLibrary.packages[t[2]].name, t[3])>>)>>}

\* C20: a selected name lib.pkg.X resolves only if X is declared
\* immediately within pkg: when X is only potentially visible in pkg, or
\* visible through the root region of pkg (a library name, a name brought
\* in by pkg's context clause), the use clause gives 'No declaration of X
\* within package pkg'.
C20_OnlyImmediateNamesOfPackage ==
    pc = "done" =>
        \A t \in Through :
            LET user == MainLibrary.packages[t[1]]
                pkg == MainLibrary.packages[t[2]]
                at == Pos(MainLibrary.name, user.name, "ctx", 1, 1, 1)
            IN Named(pkg.decl, t[3]) = {} =>
                 \E m \in 1..Len(messages) :
                    messages[m] = Error(at, MsgNoDeclWithin, <<t[3], pkg.name>>)

(***************************************************************************)
(* Library-wide use clauses, context references and on-demand analysis     *)
(***************************************************************************)
\* a name that refers to a library as a whole or to a package by its name:
\* `work.all`, `work.q`
LibraryWide(name) ==
    /\ name.k \in {"Selected", "SelectedAll"}
    /\ name.prefix = Designator(work_sym)

\* two packages, each with a context clause of library-wide use clauses,
\* one of them at least referring to the other
OnlyLibraryWide ==
    /\ Len(MainLibrary.packages) = 2
    /\ MainLibrary.contexts = <<>> /\ MainLibrary.entities = <<>>
    /\ \A n \in 1..2 : \A i \in 1..Len(MainLibrary.packages[n].ctx) :
          LET item == MainLibrary.packages[n].ctx[i]
          IN item.k = "Use" /\ \A j \in 1..Len(item.names) : LibraryWide(item.names[j])
    /\ \E n \in 1..2 : MainLibrary.packages[n].ctx # <<>>
    /\ \A n \in 1..2 :
          LET q == MainLibrary.packages[n]
          IN /\ q.bodyCtx = <<>>
             /\ \A i \in 1..Len(q.decl) : q.decl[i].kind # "Use"
             /\ \A i \in 1..Len(q.bodyDecl) : q.bodyDecl[i].kind # "Use"

\* the frames of use clauses that are at a name `<library>.all`
AtLibraryAll ==
    {i \in 1..Len(stack) :
        /\ stack[i].fn = "analyze_use_clause"
        /\ stack[i].j <= Len(stack[i].names)
        /\ stack[i].names[stack[i].j].k = "SelectedAll"
        /\ stack[i].names[stack[i].j].prefix.k = "Designator"
        /\ stack[i].names[stack[i].j].prefix.d \in LibNames \cup {work_sym}}

\* C21: a use clause `use <library>.all` never asks for the region of a
\* package: while it is analyzed no on-demand resolution is active, and
\* packages that refer to each other only by library-wide `.all` clauses or
\* by package name are never analyzed on demand, never reported as
\* circular, and get no diagnostic.
C21_LibraryAllResolvesNothing ==
    /\ pc = "running" =>
          \A i \in AtLibraryAll : \A k \in (i + 1)..Len(stack) :
             stack[k].fn # "get_package_region"
    /\ OnlyLibraryWide =>
          /\ \A i \in 1..Len(trace) : trace[i].ev = "lock" => trace[i].ok /\ trace[i].out
          /\ \A m \in 1..Len(messages) :
                messages[m].msg \notin {MsgCircularUsing, MsgCircularAnalyzing}
          /\ (\A n \in 1..2 : ~Lacking(MainLibrary.packages[n])) => messages = <<>>

C21_Witness ==
    /\ pc = "done" /\ OnlyLibraryWide /\ Len(root) = 2
    /\ MainLibrary.packages[1].ctx = <<UseClause(<<SelectedAll(Designator(work_sym))>>)>>
    /\ MainLibrary.packages[2].ctx =
          <<UseClause(<<Selected(Designator(work_sym), MainLibrary.packages[1].name)>>)>>
    /\ messages = <<>>
    /\ Cardinality({i \in 1..Len(trace) : trace[i].ev = "lock"}) = 3

\* the references to x of the library by a name `work.x` in the context
\* clauses that are reported: part, item and name
ReferencesTo(x) ==
    {t \in ClauseParts \X (1..3) \X (1..3) :
        /\ t[2] <= Len(t[1].items) /\ t[1].items[t[2]].k = "Context"
        /\ t[3] <= Len(t[1].items[t[2]].names)
        /\ t[1].items[t[2]].names[t[3]] = Selected(Designator(work_sym), x)}

\* the diagnostics of a sink at positions of the unit
OfUnit(sink, unit) ==
    {m \in 1..Len(sink) : sink[m].pos.lib = MainLibrary.name /\ sink[m].pos.unit = unit}

\* the diagnostics of the output at the j-th name of the i-th item of c
AtName(c, i, j) ==
    {m \in MessagesAt(c.unit, c.part, i) : messages[m].pos.j = j}

ContextNames == {MainLibrary.contexts[n].name : n \in 1..Len(MainLibrary.contexts)}

\* the primary units of the library that are not context declarations
OtherUnitNames ==
    {MainLibrary.packages[n].name : n \in 1..Len(MainLibrary.packages)}
    \cup {Entities[n].name : n \in 1..Len(Entities)}

\* C22: a context reference that resolves to a context declaration brings
\* the items of the context in and adds nothing to the output, so what is
\* wrong inside a context declaration is in the output once, from the
\* analysis of the context itself, however many units refer to it; a
\* reference that resolves to anything else gives exactly one 'does not
\* denote a context declaration' error.
C22_ContextReferenceInlines ==
    pc = "done" =>
        /\ \A x \in ContextNames : \A t \in ReferencesTo(x) :
              AtName(t[1], t[2], t[3]) = {}
        /\ \A x \in OtherUnitNames : \A t \in ReferencesTo(x) :
              /\ Cardinality(AtName(t[1], t[2], t[3])) = 1
              /\ \A m \in AtName(t[1], t[2], t[3]) :
                    messages[m] = Error(SuffixPos(NamePos(t[1], t[2], t[3])), MsgNotContext, x)
        /\ \A x \in ContextNames :
              (/\ \A t \in ReferencesTo(x) :
                     t[1].unit \in ContextNames => ReferencesTo(t[1].unit) = {}
               /\ \A n \in 1..Len(MainLibrary.packages) :
                     ~Sentinel(Key(MainLibrary.name, MainLibrary.packages[n].name))) =>
                \A m \in OfUnit(messages, x) :
                   Cardinality({k \in OfUnit(ignored, x) : ignored[k] = messages[m]}) =
                      Cardinality(ReferencesTo(x))
                        * Cardinality({k \in OfUnit(messages, x) : messages[k] = messages[m]})

C22_Witness ==
    /\ pc = "done" /\ Len(MainLibrary.contexts) = 2
    /\ MainLibrary.contexts[1].items = <<LibraryClause(<<"missing">>), Clauses.work_usepkg>>
    /\ Cardinality(ReferencesTo("ctx")) = 3 /\ Cardinality(ReferencesTo("usepkg")) = 3
    /\ messages[1] = Error(Pos("libname", "pkg", "ctx", 1, 2, 1), MsgNotContext, "usepkg")
    /\ Cardinality(OfUnit(messages, "ctx")) = 1
    /\ Cardinality(OfUnit(ignored, "ctx")) = 3

\* the analyses of the declaration of package x that took the lock, with
\* the output (out) or a disposable sink for their diagnostics
Analyses(x, out) ==
    {i \in 1..Len(trace) :
        /\ trace[i].ev = "lock" /\ trace[i].ok /\ trace[i].out = out
        /\ trace[i].key = Key(MainLibrary.name, x)}

NoLockFailed == \A i \in 1..Len(trace) : trace[i].ev = "lock" => trace[i].ok

\* an on-demand resolution of a package region is active
DemandActive == \E i \in 1..Len(stack) : stack[i].fn = "get_package_region"

\* every diagnostic of the package declaration p is in the output as often
\* as one analysis gives it, and in the disposable sinks as often as the
\* analyses on demand give it
ReportedOnce(p) ==
    /\ Cardinality(Analyses(p.name, TRUE)) = 1
    /\ \A m \in OfUnit(messages, p.name) :
          Cardinality({k \in OfUnit(ignored, p.name) : ignored[k] = messages[m]}) =
             Cardinality(Analyses(p.name, FALSE))
               * Cardinality({k \in OfUnit(messages, p.name) : messages[k] = messages[m]})

\* C23: no diagnostic produced while a package is analyzed on demand
\* reaches the output: every diagnostic of the context clause and the
\* declarative part of a package is in the output exactly once, whether or
\* not other units asked for the region of the package, before or after
\* the package was analyzed directly.
C23_DemandReportsNothing ==
    [][/\ messages' # messages => ~DemandActive
       /\ (pc' = "done" /\ NoLockFailed') =>
             \A n \in 1..Len(MainLibrary.packages) :
                ~MainLibrary.packages[n].hasBody => ReportedOnce(MainLibrary.packages[n])']_vars

C23_Witness ==
    /\ pc = "done" /\ Len(MainLibrary.packages) = 2
    /\ MainLibrary.packages[2].name = "usepkg"
    /\ MainLibrary.packages[2].decl = <<ConstC, ConstC>>
    /\ Cardinality(Analyses("usepkg", FALSE)) = 1
    /\ Cardinality(OfUnit(messages, "usepkg")) = 2
    /\ Cardinality(OfUnit(ignored, "usepkg")) = 2
    /\ ReportedOnce(MainLibrary.packages[2])

(***************************************************************************)
(* The order of the direct analysis and the root regions                   *)
(***************************************************************************)
Visits == {i \in 1..Len(trace) : trace[i].ev = "visit"}

\* the place of a kind of unit in the loop over one library
Rank(k) ==
    CASE k = "package" -> 1
      [] k = "package_instance" -> 2
      [] k = "context" -> 3
      [] k \in {"entity", "architecture"} -> 4
      [] OTHER -> 0

\* the units the pass has to visit, as kind and key
ToVisit ==
    UNION {LET l == root[n]
           IN IF l.name = std_sym
              THEN {<<"std_package", Key(l.name, l.packages[i].name)>> :
                       i \in 1..Len(l.packages)}
              ELSE {<<"package", Key(l.name, l.packages[i].name)>> : i \in 1..Len(l.packages)}
                   \cup {<<"package_instance", Key(l.name, l.instances[i].name)>> :
                            i \in 1..Len(l.instances)}
                   \cup {<<"context", Key(l.name, l.contexts[i].name)>> :
                            i \in 1..Len(l.contexts)}
                   \cup {<<"entity", Key(l.name, l.entities[i].name)>> :
                            i \in 1..Len(l.entities)} :
           n \in 1..Len(root)}

\* C24: the packages of the std library are analyzed before any unit of
\* another library and the loop over the libraries skips std; within a
\* library the packages come before the package instances, these before
\* the contexts and these before the entities, each entity followed by its
\* own architectures.
C24_VisitOrder ==
    /\ \A i \in Visits : \A j \in Visits :
          /\ (trace[i].k = "std_package" /\ trace[j].k # "std_package") => i < j
          /\ trace[i].k = "std_package" <=> trace[i].key[1] = std_sym
          /\ (i < j /\ trace[i].key[1] = trace[j].key[1]) =>
                Rank(trace[i].k) <= Rank(trace[j].k)
          /\ (i < j /\ trace[i].k # "architecture" /\ trace[j].k # "architecture") =>
                trace[i] # trace[j]
    /\ \A j \in Visits :
          trace[j].k = "architecture" =>
             \E i \in Visits :
                /\ i < j /\ trace[i].k = "entity" /\ trace[i].key = trace[j].key
                /\ \A h \in Visits : (i < h /\ h < j) => trace[h] = trace[j]
    /\ pc = "done" =>
          /\ {<<trace[i].k, trace[i].key>> : i \in {v \in Visits : trace[v].k # "architecture"}}
                = ToVisit
          /\ \A n \in 1..Len(root) : \A e \in 1..Len(root[n].entities) :
                root[n].name # std_sym =>
                   Cardinality({i \in Visits :
                                   /\ trace[i].k = "architecture"
                                   /\ trace[i].key = Key(root[n].name, root[n].entities[e].name)})
                      = Len(root[n].entities[e].architectures)

C24_Witness ==
    /\ pc = "done" /\ Len(root) = 3
    /\ root[1].name = "libb" /\ root[2].name = std_sym /\ root[3].name = "liba"
    /\ [i \in 1..Len(trace) |-> <<trace[i].ev, trace[i].k, trace[i].key[2]>>] =
          << <<"visit", "std_package", standard_designator>>,
             <<"lock", "package", standard_designator>>,
             <<"visit", "package", "b1">>, <<"lock", "package", "b1">>,
             <<"visit", "context", "c2">>, <<"visit", "entity", "e3">>,
             <<"visit", "package", "a1">>, <<"lock", "package", "a1">>,
             <<"visit", "package", "a2">>, <<"lock", "package", "a2">>,
             <<"visit", "package_instance", "i1">>, <<"visit", "context", "c1">>,
             <<"visit", "entity", "e1">>, <<"visit", "architecture", "e1">>,
             <<"visit", "architecture", "e1">>,
             <<"visit", "entity", "e2">>, <<"visit", "architecture", "e2">> >>

\* the frames that analyze hands a root region to, with their library
DirectUnits ==
    {i \in 1..Len(stack) :
        /\ i = 2 /\ stack[1].fn = "analyze"
        /\ \/ stack[i].fn = "analyze_package" /\ stack[i].pc = "start"
           \/ stack[i].fn = "analyze_entity" /\ stack[i].pc = "start"
           \/ stack[i].fn = "analyze_context_clause" /\ stack[i].pc = "item" /\ stack[i].i = 1}

LibraryOfUnit(f) == IF f.fn = "analyze_context_clause" THEN f.base.lib ELSE f.lib

\* the name resolves in region r to the library lib
ResolvesTo(r, name, lib) ==
    /\ IsSome(lookup(r, name))
    /\ TheDecl(lookup(r, name)[1]).decl.k = "Library"
    /\ TheDecl(lookup(r, name)[1]).decl.lib = lib

\* the names declared immediately within package standard of library std
StandardNames ==
    LET decl == ThePackage(std_sym, standard_designator).decl
    IN UNION {{decl[i].ident} \cup {decl[i].lits[n] : n \in 1..Len(decl[i].lits)} :
                 i \in 1..Len(decl)}

\* the root region of the unit of frame f is as every unit's should be
RootRegion(f) ==
    /\ ResolvesTo(f.region, work_sym, LibraryOfUnit(f))
    /\ std_sym \in LibNames =>
          /\ ResolvesTo(f.region, std_sym, std_sym)
          /\ LibraryOfUnit(f) # std_sym =>
                \A x \in StandardNames : IsSome(lookup(f.region, x))

\* C25: in the root region of every design unit that is analyzed directly
\* 'work' resolves to the library of the unit and, when there is a std
\* library, 'std' resolves to it without a library clause; for the units
\* outside std the declarations of std.standard are potentially visible
\* too.
C25_RootRegionOfEveryUnit ==
    pc = "running" => \A i \in DirectUnits : RootRegion(stack[i])

\* the same for the units outside the std library only
RootRegionOutsideStd ==
    pc = "running" =>
        \A i \in DirectUnits : LibraryOfUnit(stack[i]) # std_sym => RootRegion(stack[i])

\* C26: no single error stops the analysis of another unit: for every
\* package with a body the declarative part of the body is analyzed and
\* closed during the pass, so a constant declared twice in the body is
\* reported as a duplicate whatever other diagnostics there are, a
\* circular dependency that involves the package included.
C26_BodyAlwaysAnalyzed ==
    pc = "done" =>
        \A n \in Bodies :
            LET p == MainLibrary.packages[n]
            IN \A i \in 1..Len(p.bodyDecl) : \A j \in 1..Len(p.bodyDecl) :
                  (/\ i < j /\ Named(p.decl, p.bodyDecl[i].ident) = {}
                   /\ DeclClass(p.bodyDecl[i]) = "FullConstant"
                   /\ DeclClass(p.bodyDecl[j]) = "FullConstant"
                   /\ p.bodyDecl[i].ident = p.bodyDecl[j].ident) =>
                    \E m \in 1..Len(messages) :
                       /\ messages[m].msg = MsgDuplicate
                       /\ messages[m].pos = Pos(MainLibrary.name, p.name, "body", j, 0, 0)

\* the same for the packages whose key does not hold the sentinel
BodyAnalyzedUnlessSentinel ==
    pc = "done" =>
        \A n \in Bodies :
            LET p == MainLibrary.packages[n]
            IN \A i \in 1..Len(p.bodyDecl) : \A j \in 1..Len(p.bodyDecl) :
                  (/\ i < j /\ Named(p.decl, p.bodyDecl[i].ident) = {}
                   /\ DeclClass(p.bodyDecl[i]) = "FullConstant"
                   /\ DeclClass(p.bodyDecl[j]) = "FullConstant"
                   /\ p.bodyDecl[i].ident = p.bodyDecl[j].ident
                   /\ ~Sentinel(Key(MainLibrary.name, p.name))) =>
                    \E m \in 1..Len(messages) :
                       /\ messages[m].msg = MsgDuplicate
                       /\ messages[m].pos = Pos(MainLibrary.name, p.name, "body", j, 0, 0)

\* the notifications among rpc[1..n] with the given method
Sent(method, n) == {k \in 1..n : rpc[k].method = method}

\* the place in rpc of the log notification of the i-th pushed message
LogOf(i) == CHOOSE k \in 1..Len(rpc) :
                rpc[k].method = "window/logMessage"
                /\ Cardinality(Sent("window/logMessage", k)) = i

Shown(i) == ~silent /\ pushed[i].message_type \in {"Warning", "Error"}

\* C27: for every message pushed to the MessageFilter exactly one
\* window/logMessage notification is sent; a window/showMessage notification
\* is sent, just before it, if and only if the silent setting is off and the
\* message type is Warning or Error; with silent on no window/showMessage is
\* ever sent.
C27_MessageFilterNotifications ==
    /\ Cardinality(Sent("window/logMessage", Len(rpc))) = Len(pushed)
    /\ Cardinality(Sent("window/showMessage", Len(rpc)))
         = Cardinality({i \in 1..Len(pushed) : Shown(i)})
    /\ \A k \in 1..Len(rpc) :
          rpc[k].method \in {"window/logMessage", "window/showMessage"}
    /\ \A i \in 1..Len(pushed) :
          LET k == LogOf(i)
          IN /\ rpc[k].message = pushed[i].message
             /\ Shown(i) <=> (k > 1 /\ rpc[k - 1].method = "window/showMessage")
             /\ Shown(i) => rpc[k - 1].message = pushed[i].message
    /\ silent => Sent("window/showMessage", Len(rpc)) = {}

C27_Witness ==
    /\ ~silent /\ Len(pushed) = MaxPushed
    /\ \E i, j \in 1..Len(pushed) :
          /\ pushed[i].message_type = "Error"
          /\ pushed[j].message_type = "Info"
    /\ Cardinality(Sent("window/showMessage", Len(rpc))) = 1

\* a lock attempt is about to be made on a key that is in the locked set
FailingAttempt ==
    /\ Running("analyze_package_declaration_unit") /\ Top.pc = "start"
    /\ Key(Top.lib, Top.pkg) \in locked

\* the call that acquired the key is the innermost one and returns
HolderReturns(key) ==
    /\ Running("analyze_package_declaration_unit") /\ Top.pc = "close"
    /\ Key(Top.lib, Top.pkg) = key
    /\ Len(stack') = Len(stack) - 1

\* C28: a lock attempt on a key that is already in the locked set returns
\* an error and leaves the locked set unchanged: the key stays locked for
\* the outer computation that holds it, and a key leaves the locked set
\* only in the step in which the computation holding it returns.
C28_FailedLockKeepsKey ==
    [][/\ FailingAttempt =>
            /\ locked' = locked
            /\ Len(stack') = Len(stack) - 1 /\ ret' = None
            /\ Key(Top.lib, Top.pkg) \in Holders'
       /\ \A key \in locked : key \notin locked' => HolderReturns(key)]_vars

\* the last lock attempt failed, and its key is still held by an outer call
C28_Witness ==
    /\ pc = "running" /\ trace # <<>>
    /\ LET e == trace[Len(trace)]
       IN /\ e.ev = "lock" /\ ~e.ok
          /\ e.key \in locked /\ e.key \in Holders
          /\ Len(stack) > 1 /\ Top.fn = "get_package_region"

(***************************************************************************)
(* Use clauses that name a package                                         *)
(***************************************************************************)
\* the library that the designator d denotes in region r, if any
LibraryAt(r, d) ==
    IF IsSome(lookup(r, d)) /\ TheDecl(lookup(r, d)[1]).decl.k = "Library"
    THEN Some(TheDecl(lookup(r, d)[1]).decl.lib)
    ELSE None

\* the names `L.q` of the use clause just analyzed, L a library visible
\* before the clause and q a package of it
SinglePackages ==
    {j \in 1..Len(Top.items[Top.i].names) :
        LET name == Top.items[Top.i].names[j]
        IN /\ name.k = "Selected" /\ name.prefix.k = "Designator"
           /\ IsSome(LibraryAt(Top.region, name.prefix.d))
           /\ \E n \in 1..Len(TheLibrary(LibraryAt(Top.region, name.prefix.d)[1]).packages) :
                 TheLibrary(LibraryAt(Top.region, name.prefix.d)[1]).packages[n].name
                    = name.suffix}

PackageNamed(j) ==
    LET name == Top.items[Top.i].names[j]
    IN ThePackage(LibraryAt(Top.region, name.prefix.d)[1], name.suffix)

\* the designators a package declares in its declarative part
Exported(p) == {p.decl[i].ident : i \in {n \in 1..Len(p.decl) : p.decl[n].kind # "Use"}}

AfterUse == AfterUseClause /\ Top.items[Top.i].k = "Use"

\* C29 as amended: a use clause name `L.q` that resolves to a single
\* package makes the package q itself potentially visible in the region
\* under its name, and nothing else: a clause of such names leaves the
\* lookup of every other designator, the names declared in q included, as
\* it was before the clause.
C29_SinglePackageMadeVisible ==
    AfterUse =>
        /\ \A j \in SinglePackages :
              LET q == Top.items[Top.i].names[j].suffix
                  lib == LibraryAt(Top.region, Top.items[Top.i].names[j].prefix.d)[1]
              IN /\ q \in DOMAIN ret.vis
                 /\ \E k \in 1..Len(ret.vis[q]) :
                       ret.vis[q][k].decl = AnyDeclaration("Package", lib, q, "Other")
        /\ SinglePackages = 1..Len(Top.items[Top.i].names) =>
              \A x \in ProbeNames \cup UNION {Exported(PackageNamed(j)) : j \in SinglePackages} :
                 (\A j \in SinglePackages : Top.items[Top.i].names[j].suffix # x)
                    => lookup(ret, x) = lookup(Top.region, x)

\* after `use work.usepkg` the package is found under its name and the
\* constant c it declares is not
C29_Witness ==
    /\ AfterUse /\ Top.items[Top.i] = Clauses.work_usepkg
    /\ SinglePackages = {1}
    /\ "c" \in Exported(PackageNamed(1))
    /\ lookup(Top.region, "usepkg") = None
    /\ IsSome(lookup(ret, "usepkg"))
    /\ lookup(ret, "c") = None

\* C29 as stated: a use clause name that resolves to a single package makes
\* the names the package declares potentially visible in the region.
C29_ExportedNamesMadeVisible ==
    AfterUse =>
        \A j \in SinglePackages : \A x \in Exported(PackageNamed(j)) :
            IsSome(lookup(ret, x))

(***************************************************************************)
(* Two-stage use clauses                                                   *)
(***************************************************************************)
\* the packages that bring usepkg in by `use work.usepkg` or `library
\* libname; use libname.usepkg` and then have `use usepkg.x` as the last
\* item of the same context clause or as the context clause of their
\* body: <<package, part, item, x>>
TwoStage ==
    {t \in (1..Len(MainLibrary.packages)) \X {"ctx", "bodyctx"} \X (1..3)
             \X (ProbeNames \cup {"c"}) :
        /\ Len(root) = 1 /\ MainLibrary.name = "libname"
        /\ \E n \in 1..Len(MainLibrary.packages) :
              /\ MainLibrary.packages[n].name = "usepkg"
              /\ MainLibrary.packages[n].ctx = <<>>
        /\ LET p == MainLibrary.packages[t[1]]
               second == UseClause(<<Selected(Designator("usepkg"), t[4])>>)
           IN \E first \in {<<Clauses.work_usepkg>>,
                            <<Clauses.libname, Clauses.libname_usepkg>>} :
                 \/ t[2] = "ctx" /\ p.ctx = first \o <<second>> /\ t[3] = Len(p.ctx)
                 \/ /\ t[2] = "bodyctx" /\ p.ctx = first /\ p.hasBody
                    /\ p.bodyCtx = <<second>> /\ t[3] = 1}

\* a use clause `use usepkg.x` of such a package is being started
AtSecondStage ==
    /\ Running("analyze_use_clause") /\ Top.pc = "name" /\ Top.j = 1
    /\ \E t \in TwoStage :
          /\ Top.names = <<Selected(Designator("usepkg"), t[4])>>
          /\ Top.use_pos.unit = MainLibrary.packages[t[1]].name
          /\ Top.use_pos.part = t[2]

NoDeclarationWithin(t) ==
    Error(Pos("libname", MainLibrary.packages[t[1]].name, t[2], t[3], 1, 1),
          MsgNoDeclWithin, <<t[4], "usepkg">>)

\* C30: after a use clause `use L.P`, P a package of library L, the simple
\* name P resolves to that package in the region, so a following
\* `use P.x` resolves x inside P: it gives nothing when P declares x and
\* the error 'No declaration of x within package P' when P does not.
C30_TwoStageUseClause ==
    /\ AtSecondStage =>
          /\ IsSome(lookup(Top.region, "usepkg"))
          /\ TheDecl(lookup(Top.region, "usepkg")[1]).decl
                = AnyDeclaration("Package", "libname", "usepkg", "Other")
    /\ pc = "done" =>
          \A t \in TwoStage :
             LET unit == MainLibrary.packages[t[1]].name
             IN IF t[4] \in Exported(ThePackage("libname", "usepkg"))
                THEN MessagesAt(unit, t[2], t[3]) = {}
                ELSE /\ Cardinality(MessagesAt(unit, t[2], t[3])) = 1
                     /\ \A m \in MessagesAt(unit, t[2], t[3]) :
                           messages[m] = NoDeclarationWithin(t)

\* the same, but for a name x that the region of P finds although P does
\* not declare it (the working library's name, found in P's root region)
TwoStageUnlessSeenFromPackage ==
    /\ AtSecondStage =>
          /\ IsSome(lookup(Top.region, "usepkg"))
          /\ TheDecl(lookup(Top.region, "usepkg")[1]).decl
                = AnyDeclaration("Package", "libname", "usepkg", "Other")
    /\ pc = "done" =>
          \A t \in TwoStage :
             LET unit == MainLibrary.packages[t[1]].name
             IN IF t[4] \in Exported(ThePackage("libname", "usepkg"))
                THEN MessagesAt(unit, t[2], t[3]) = {}
                ELSE t[4] # work_sym =>
                     /\ Cardinality(MessagesAt(unit, t[2], t[3])) = 1
                     /\ \A m \in MessagesAt(unit, t[2], t[3]) :
                           messages[m] = NoDeclarationWithin(t)

\* both outcomes of the second stage were seen
TwoStageSeen ==
    /\ pc = "done"
    /\ \E t \in TwoStage :
          /\ t[2] = "bodyctx" /\ t[4] = "missing"
          /\ \E m \in 1..Len(messages) : messages[m] = NoDeclarationWithin(t)

(***************************************************************************)
(* Use clauses that import nothing                                         *)
(***************************************************************************)
\* library libname has the package usepkg with the constant c, the context
\* ctx, the package instance ipkg and the entity ent
EveryKind ==
    /\ Len(root) = 1 /\ MainLibrary.name = "libname"
    /\ \E n \in 1..Len(MainLibrary.packages) :
          MainLibrary.packages[n].name = "usepkg" /\ MainLibrary.packages[n].ctx = <<>>
          /\ MainLibrary.packages[n].decl = <<ConstC>>
    /\ \E n \in 1..Len(MainLibrary.contexts) : MainLibrary.contexts[n].name = "ctx"
    /\ \E n \in 1..Len(MainLibrary.instances) : MainLibrary.instances[n].name = "ipkg"
    /\ \E n \in 1..Len(Entities) : Entities[n].name = "ent"

\* in such a library: the names that denote one declaration that is no
\* package (an entity, a context, a package instance, a constant)
SingleOthers ==
    { Selected(Designator(work_sym), "ent"), Selected(Designator(work_sym), "ctx"),
      Selected(Designator(work_sym), "ipkg"), W("usepkg", "c") }

\* and the names whose prefix denotes something that is neither a library
\* nor a package
UnfinishedNames ==
    { W("ent", "x"), W("ctx", "x"), W("ipkg", "c"), Selected(W("usepkg", "c"), "x"),
      SelectedAll(W("ent", "x")) }

Imports(items, i) ==
    /\ items[i].k = "Use"
    /\ \E j \in 1..Len(items[i].names) :
          items[i].names[j] \notin SingleOthers \cup UnfinishedNames

AllOf ==
    IF /\ \A j \in 1..Len(Top.items[Top.i].names) :
             \E n \in 1..Len(MainLibrary.packages) :
                /\ Top.items[Top.i].names[j] = WAll(MainLibrary.packages[n].name)
                /\ IsSome(get_region(cache, Key(MainLibrary.name, MainLibrary.packages[n].name)))
       /\ IsSome(LibraryAt(Top.region, work_sym))
       /\ LibraryAt(Top.region, work_sym)[1] = MainLibrary.name
    THEN {n \in 1..Len(MainLibrary.packages) :
            \E j \in 1..Len(Top.items[Top.i].names) :
               Top.items[Top.i].names[j] = WAll(MainLibrary.packages[n].name)}
    ELSE {}

\* the potentially visible declarations of x in region r
VisibleOf(r, x) ==
    IF x \in DOMAIN r.vis THEN {r.vis[x][k] : k \in 1..Len(r.vis[x])} ELSE {}

\* the declaration was made in the declarative part of package n
DeclaredIn(vd, n) ==
    /\ PosOf(vd.decl_pos).lib = MainLibrary.name
    /\ PosOf(vd.decl_pos).unit = MainLibrary.packages[n].name
    /\ PosOf(vd.decl_pos).part = "decl"

\* C32: `use lib.pkg.all` makes exactly the immediate declarations of pkg
\* potentially visible in the using region: a name that pkg declares is
\* found there afterwards, a name that pkg only sees through its own use
\* clauses or context clause is found as it was before, and a designator
\* imported from two packages gives no diagnostic.
C32_AllImportsImmediateOnly ==
    /\ (AfterUse /\ AllOf # {}) =>
          \A x \in ProbeNames \cup {"c", "k"} :
             LET from == {n \in AllOf : Named(MainLibrary.packages[n].decl, x) # {}}
             IN /\ \A n \in from : \E vd \in VisibleOf(ret, x) : DeclaredIn(vd, n)
                /\ \A vd \in VisibleOf(ret, x) \ VisibleOf(Top.region, x) :
                      \E n \in from : DeclaredIn(vd, n)
                /\ VisibleOf(Top.region, x) \subseteq VisibleOf(ret, x)
                /\ from = {} => lookup(ret, x) = lookup(Top.region, x)
                /\ from # {} => IsSome(lookup(ret, x))
    /\ (pc = "done" /\ MainLibrary.name # std_sym) =>
          \A c \in ClauseParts : \A i \in 1..Len(c.items) :
             (/\ c.items[i].k = "Use" /\ c.items[i].names # <<>>
              /\ \A j \in 1..Len(c.items[i].names) :
                    \E n \in 1..Len(MainLibrary.packages) :
                       /\ c.items[i].names[j] = WAll(MainLibrary.packages[n].name)
                       /\ ~Sentinel(Key(MainLibrary.name, MainLibrary.packages[n].name))
                       /\ MainLibrary.packages[n].name # c.unit)
                => MessagesAt(c.unit, c.part, i) = {}

\* `use work.usepkg.all, work.pkg.all` with c declared by usepkg and k by
\* pkg, which itself uses all of usepkg: c is found once, from usepkg
C32_Witness ==
    /\ AfterUse /\ Cardinality(AllOf) = 2 /\ Top.out
    /\ \E n \in AllOf :
          /\ MainLibrary.packages[n].decl
                = <<UseDecl(<<WAll("usepkg")>>), Decl("Object", "k", "full")>>
          /\ \E vd \in VisibleOf(ret, "k") : DeclaredIn(vd, n)
          /\ \A vd \in VisibleOf(ret, "c") : ~DeclaredIn(vd, n)
    /\ Cardinality(VisibleOf(ret, "c")) = 1
    /\ VisibleOf(Top.region, "c") = {}

(***************************************************************************)
(* Deferred items, their completions and what comes after                  *)
(***************************************************************************)
\* the one package declares a by declarations of the classes ds and, when
\* bs is not empty, has a body that declares a by those of the classes bs
Classes(ds, bs) ==
    /\ OnePackage
    /\ Len(ThePkg.decl) = Len(ds)
    /\ \A i \in 1..Len(ds) : ThePkg.decl[i].ident = "a" /\ DeclClass(ThePkg.decl[i]) = ds[i]
    /\ ThePkg.hasBody <=> bs # <<>>
    /\ ThePkg.hasBody =>
          /\ Len(ThePkg.bodyDecl) = Len(bs)
          /\ \A i \in 1..Len(bs) :
                ThePkg.bodyDecl[i].ident = "a" /\ DeclClass(ThePkg.bodyDecl[i]) = bs[i]

\* the only diagnostic of the pass is a duplicate at `at` that refers to `first`
OneDuplicate(at, first) ==
    messages = <<Message("error", at, MsgDuplicate, "a", Some(first))>>

\* C33: when a deferred item and its completion are both declared, a
\* further declaration of the same designator and completing kind gives
\* exactly one 'Duplicate declaration' error whose related position is the
\* first completing declaration; a deferred item met by a completion of
\* another kind is a duplicate that refers to the first declaration.
C33_DuplicateAfterCompletion ==
    pc = "done" =>
        /\ Classes(<<"DeferredConstant">>, <<"FullConstant", "FullConstant">>)
              => OneDuplicate(BodyPos(2), BodyPos(1))
        /\ Classes(<<"ProtectedType", "ProtectedBody", "ProtectedBody">>, <<>>)
              => OneDuplicate(DeclPos(3), DeclPos(2))
        /\ Classes(<<"ProtectedType", "FullConstant", "ProtectedBody">>, <<>>)
              => OneDuplicate(DeclPos(2), DeclPos(1))
        /\ Classes(<<"DeferredConstant", "ProtectedBody">>, <<"FullConstant">>)
              => OneDuplicate(DeclPos(2), DeclPos(1))

C33_Witness ==
    /\ pc = "done"
    /\ Classes(<<"DeferredConstant">>, <<"FullConstant", "FullConstant">>)
    /\ Len(messages) = 1 /\ messages[1].related = Some(BodyPos(1))

\* the other three cases were analyzed, too
OtherCompletionCases ==
    /\ pc = "done" /\ Len(messages) = 1
    /\ \/ Classes(<<"ProtectedType", "ProtectedBody", "ProtectedBody">>, <<>>)
       \/ Classes(<<"DeferredConstant", "ProtectedBody">>, <<"FullConstant">>)

(***************************************************************************)
(* Interface and element lists                                             *)
(***************************************************************************)
\* the design root is one package without a context clause, generics and
\* body, with declarations of the names x, f, h, c, r and t only
Listed ==
    /\ OnePackage /\ ~ThePkg.hasBody /\ ThePkg.decl # <<>>
    /\ ThePkg.ctx = <<>> /\ ThePkg.generics = <<>>
    /\ MainLibrary.contexts = <<>> /\ MainLibrary.instances = <<>> /\ Entities = <<>>
    /\ \A i \in 1..Len(ThePkg.decl) : ThePkg.decl[i].ident \in {"x", "f", "h", "c", "r", "t"}

\* the position of the n-th name of the l-th list of declaration i
ListPos(i, l, n) == [DeclPos(i) EXCEPT !.j = n, !.sub = l]

\* the diagnostics at `at` are as they are for the n-th of the names
\* `names`, whose positions are PosAt(1), PosAt(2)..., when only these
\* names are checked against each other: one duplicate that refers to the
\* first of the same name, or nothing
AmongOwn(names, n, PosAt(_)) ==
    LET same == {m \in 1..Len(names) : names[m] = names[n]}
        first == CHOOSE m \in same : \A k \in same : m <= k
    IN IF first < n
       THEN /\ Cardinality(Exactly(PosAt(n))) = 1
            /\ \A m \in Exactly(PosAt(n)) :
                  messages[m] = Message("error", PosAt(n), MsgDuplicate, names[n],
                                        Some(PosAt(first)))
       ELSE Exactly(PosAt(n)) = {}

\* the names that the declarations of the names x, c and r give the
\* declarative part ("" for each declaration of another name)
OwnNames(decls) ==
    [i \in 1..Len(decls) |->
        IF decls[i].ident \in {"x", "c", "r"} THEN decls[i].ident ELSE ""]

\* C34: the parameter list of each subprogram, the generic list and the
\* port list of each component and the element list of each record are
\* checked for duplicates in a region of their own: a name reported in a
\* list is one that the same list has before, a name of a list collides
\* neither with another list nor with the enclosing declarative part nor
\* with the declarative part of the subprogram body, whereas the generic
\* and the port list of an entity share the region of the entity and
\* collide with each other.
C34_ListsAreClosedChecks ==
    /\ (pc = "done" /\ Listed) =>
          /\ \A i \in 1..Len(ThePkg.decl) :
                LET d == ThePkg.decl[i]
                IN /\ \A l \in 1..Len(d.lists) : \A n \in 1..Len(d.lists[l]) :
                         LET PosAt(k) == ListPos(i, l, k)
                         IN AmongOwn(d.lists[l], n, PosAt)
                   /\ \A n \in 1..Len(d.decls) :
                         LET PosAt(k) == Pos(MainLibrary.name, ThePkg.name,
                                             IF d.kind = "SubprogramBody"
                                             THEN "subprogram" ELSE "protected_body",
                                             k, 0, 0)
                         IN AmongOwn([k \in 1..Len(d.decls) |-> d.decls[k].ident], n, PosAt)
                   /\ d.ident \in {"x", "c", "r"} => AmongOwn(OwnNames(ThePkg.decl), i, DeclPos)
                   /\ d.ident \in {"f", "h"} => Exactly(DeclPos(i)) = {}
          /\ \A m \in 1..Len(messages) :
                LET at == messages[m].pos
                IN /\ at.part \in {"decl", "subprogram", "protected_body"}
                   /\ at.part = "decl" => at.i \in 1..Len(ThePkg.decl)
                   /\ (at.part = "decl" /\ at.sub > 0) =>
                         /\ at.sub \in 1..Len(ThePkg.decl[at.i].lists)
                         /\ at.j \in 1..Len(ThePkg.decl[at.i].lists[at.sub])
    /\ (pc = "done" /\ Len(root) = 1 /\ MainLibrary.packages = <<>> /\ Len(Entities) = 1
          /\ Entities[1].architectures = <<>> /\ Entities[1].ctx = <<>>
          /\ MainLibrary.contexts = <<>> /\ MainLibrary.instances = <<>>
          /\ \A i \in 1..Len(Entities[1].decl) : Entities[1].decl[i].ident \in {"c", "f"}) =>
          LET e == Entities[1]
              both == e.generics \o e.ports
              PosAt(k) == IF k <= Len(e.generics)
                          THEN Pos(MainLibrary.name, e.name, "generic", k, 0, 0)
                          ELSE Pos(MainLibrary.name, e.name, "port", k - Len(e.generics), 0, 0)
          IN /\ \A n \in 1..Len(both) : AmongOwn(both, n, PosAt)
             /\ \A m \in 1..Len(messages) : messages[m].pos.part \in {"generic", "port"}

\* a subprogram body with the parameters x, x and the declarations x, x
\* after an object x: one duplicate among the parameters, one among the
\* declarations of the body and none for the names across them
C34_Witness ==
    /\ pc = "done" /\ Listed /\ Len(ThePkg.decl) = 2
    /\ ThePkg.decl[1] = Decl("Object", "x", "full")
    /\ ThePkg.decl[2].kind = "SubprogramBody" /\ ThePkg.decl[2].lists = <<<<"x", "x">>>>
    /\ Len(ThePkg.decl[2].decls) = 2
    /\ Len(messages) = 2
    /\ messages[1].pos = ListPos(2, 1, 2)
    /\ messages[2].pos.part = "subprogram"

\* the generic x and the port x of an entity collide, the lists of its
\* component do not
EntityListsCollide ==
    /\ pc = "done" /\ Len(Entities) = 1 /\ MainLibrary.packages = <<>>
    /\ Entities[1].generics = <<"x">> /\ Entities[1].ports = <<"x">>
    /\ Entities[1].decl # <<>> /\ Entities[1].decl[1].kind = "Component"
    /\ messages = <<Message("error", Pos(MainLibrary.name, "ent", "port", 1, 0, 0),
                            MsgDuplicate, "x",
                            Some(Pos(MainLibrary.name, "ent", "generic", 1, 0, 0)))>>

(***************************************************************************)
(* Every design unit is analyzed directly once                             *)
(***************************************************************************)
\* the visits of the unit with the given key as one of the given kinds
VisitsOf(kinds, lib, unit) ==
    {i \in Visits : trace[i].k \in kinds /\ trace[i].key = Key(lib, unit)}

NamesOf(units) == {units[i].name : i \in 1..Len(units)}

\* each package, package instance, context and entity of library l has been
\* visited once, and every entity once more for each of its architectures
VisitedOnce(l) ==
    /\ \A u \in NamesOf(l.packages) :
          Cardinality(VisitsOf({"package", "std_package"}, l.name, u)) = 1
    /\ \A u \in NamesOf(l.instances) :
          Cardinality(VisitsOf({"package_instance"}, l.name, u)) = 1
    /\ \A u \in NamesOf(l.contexts) :
          Cardinality(VisitsOf({"context"}, l.name, u)) = 1
    /\ \A e \in 1..Len(l.entities) :
          /\ Cardinality(VisitsOf({"entity"}, l.name, l.entities[e].name)) = 1
          /\ Cardinality(VisitsOf({"architecture"}, l.name, l.entities[e].name))
                = Len(l.entities[e].architectures)

\* C35: the pass visits every design unit of every library: when analyze
\* is done each package, package instance, context, entity and
\* architecture of the design root, the units of the std library included,
\* has been directly analyzed exactly once.
C35_EveryUnitVisitedOnce ==
    pc = "done" => \A n \in 1..Len(root) : VisitedOnce(root[n])

\* what does hold: the units of the other libraries and the packages of std
VisitedOnceOutsideStd ==
    pc = "done" =>
        \A n \in 1..Len(root) :
            IF root[n].name = std_sym
            THEN /\ \A u \in NamesOf(root[n].packages) :
                       Cardinality(VisitsOf({"std_package"}, std_sym, u)) = 1
                 /\ \A i \in Visits : trace[i].key[1] = std_sym => trace[i].k = "std_package"
            ELSE VisitedOnce(root[n])

\* a pass over a std library with a context, a package instance and an
\* entity is done and has visited only the package of std
StdUnitsSkipped ==
    /\ pc = "done" /\ Len(root) = 2 /\ root[1].name = std_sym
    /\ root[1].contexts # <<>> /\ root[1].instances # <<>> /\ root[1].entities # <<>>
    /\ {trace[i].key : i \in Visits} =
          {Key(std_sym, standard_designator), Key("libb", "b1"), Key("libb", "c2"),
           Key("libb", "e3")}

(***************************************************************************)
(* The lock set and the call stack                                         *)
(***************************************************************************)
\* the lock attempts made by the direct analysis of a package
DirectLocks == {i \in 1..Len(trace) : trace[i].ev = "lock" /\ trace[i].out}

\* C36: at every point of the pass the locked set is the set of the
\* packages whose analyze_package_declaration_unit call is active on the
\* call stack after it acquired the lock; so the lock of a direct analysis
\* of a package always succeeds, and 'Found circular dependency when
\* analyzing' goes to a disposable sink only, never to the output.
C36_LockedAreTheActiveHolders ==
    /\ pc \in {"running", "done"} => locked = Holders
    /\ \A i \in DirectLocks : trace[i].ok
    /\ \A i \in 1..Len(trace) :
          (trace[i].ev = "lock" /\ ~trace[i].ok) =>
              /\ ~trace[i].out
              /\ \E m \in 1..Len(ignored) :
                    ignored[m].msg = MsgCircularAnalyzing /\ ignored[m].arg = trace[i].key
    /\ \A m \in 1..Len(messages) : messages[m].msg # MsgCircularAnalyzing

\* two packages hold their lock, the second analyzed on demand of the
\* first, after a lock attempt failed and was reported to a disposable sink
C36_Witness ==
    /\ pc = "running" /\ Cardinality(locked) = 2 /\ locked = Holders
    /\ \E i \in 1..Len(trace) : trace[i].ev = "lock" /\ ~trace[i].ok
    /\ \E m \in 1..Len(ignored) : ignored[m].msg = MsgCircularAnalyzing
    /\ DirectLocks # {}

(***************************************************************************)
(* Circular dependencies: which packages are reported                      *)
(***************************************************************************)
\* the designators a name is made of
RECURSIVE Designators(_)
Designators(name) ==
    CASE name.k = "Designator" -> {name.d}
      [] name.k = "Selected" -> Designators(name.prefix) \cup {name.suffix}
      [] name.k = "SelectedAll" -> Designators(name.prefix)
      [] OTHER -> {}

\* the designators in the names of a context clause or of the use clauses
\* of a declarative part
Named_in(items) ==
    UNION {Designators(items[i].names[n]) :
              <<i, n>> \in {x \in (1..Len(items)) \X (1..MaxItems + 1) :
                               x[2] <= Len(items[x[1]].names)}}

AllPackages ==
    UNION {{<<root[n].name, root[n].packages[i]>> : i \in 1..Len(root[n].packages)} :
              n \in 1..Len(root)}

\* package p (of library lib) may ask for the region of package q: it names
\* q in its context clause or declarative part, or refers to a context
\* declaration and some context names q, or q is std.standard, which the
\* root region of every unit outside std asks for
MayDemand(lp, lq) ==
    LET p == lp[2]
        q == lq[2]
    IN \/ q.name \in Named_in(p.ctx) \cup Named_in(p.decl)
       \/ /\ \E i \in 1..Len(p.ctx) : p.ctx[i].k = "Context"
          /\ \E n \in 1..Len(root) : \E c \in 1..Len(root[n].contexts) :
                q.name \in Named_in(root[n].contexts[c].items)
       \/ lp[1] # std_sym /\ lq[1] = std_sym /\ q.name = standard_designator

RECURSIVE Reach(_, _)
Reach(S, n) ==
    IF n = 0 THEN S
    ELSE Reach(S \cup {lq \in AllPackages : \E lp \in S : MayDemand(lp, lq)}, n - 1)

\* the package lies on a dependency cycle
OnCycle(lp) ==
    lp \in Reach({lq \in AllPackages : MayDemand(lp, lq)}, Cardinality(AllPackages))

CyclicNames == {lp[2].name : lp \in {x \in AllPackages : OnCycle(x)}}

CircularReports(sink) == {m \in 1..Len(sink) : sink[m].msg = MsgCircularUsing}

\* no package off every cycle holds the sentinel or is named in a report
OnlyCyclicReported ==
    /\ \A lp \in AllPackages : Sentinel(Key(lp[1], lp[2].name)) => OnCycle(lp)
    /\ \A m \in CircularReports(messages) : messages[m].arg \in CyclicNames
    /\ \A m \in CircularReports(ignored) : ignored[m].arg \in CyclicNames
    /\ \A m \in CircularReports(messages) :
          \E i \in 1..Len(trace) :
             trace[i].ev = "lock" /\ ~trace[i].ok /\ trace[i].key[2] = messages[m].arg

\* the sentinel of a key is recorded by a call made while the analysis of
\* the package declaration of that key is active
SentinelFromWithin ==
    \A lp \in AllPackages :
        LET key == Key(lp[1], lp[2].name)
        IN (Sentinel(key)' /\ ~Sentinel(key)) =>
              /\ key \in Holders /\ key \in Holders'
              /\ Top.fn = "analyze_package_declaration_unit" /\ Top.pc = "start"
              /\ Key(Top.lib, Top.pkg) = key

\* C37: circular-dependency reports are sound: the None sentinel is
\* recorded for a package P, and 'Found circular dependencies when using
\* package P' is emitted, only if the analysis of P's own declaration
\* transitively demanded P's region; a package that lies on no dependency
\* cycle is never reported, whatever the visit order.
C37_CircularReportsSound == []OnlyCyclicReported /\ [][SentinelFromWithin]_vars

\* pkg3 uses pkg1, which lies on a cycle with pkg2; pkg3 and what it
\* declares are left alone: the reports name pkg1 or pkg2 only
C37_Witness ==
    /\ pc = "done" /\ Len(root) = 1 /\ Len(root[1].packages) = 3
    /\ CyclicNames = {"pkg1", "pkg2"}
    /\ CircularReports(messages) # {}
    /\ \E k \in DOMAIN cache : IsNone(cache[k])
    /\ IsSome(get_region(cache, Key("libname", "pkg3")))

FailedLocks == {i \in 1..Len(trace) : trace[i].ev = "lock" /\ ~trace[i].ok}

\* C38: circular-dependency reports are not lost: if some lock acquisition
\* failed during the pass, be it inside an analysis on demand whose
\* diagnostics are discarded, then the output of the finished pass holds
\* at least one 'Found circular dependencies when using package' error.
C38_CircularReportsNotLost ==
    (pc = "done" /\ FailedLocks # {}) => CircularReports(messages) # {}

\* the only failed lock was met by the analysis on demand of pkg2, whose
\* diagnostics went to a disposable sink, and the output has the report
ReportKeptAfterDemand ==
    /\ pc = "done" /\ Cardinality(FailedLocks) = 1
    /\ CircularReports(ignored) # {}
    /\ Cardinality(CircularReports(messages)) = 1
    /\ \A i \in FailedLocks : \E j \in 1..(i - 1) :
          /\ trace[j].ev = "lock" /\ trace[j].ok /\ ~trace[j].out
          /\ trace[j].key # trace[i].key
          /\ \A h \in (j + 1)..(i - 1) : trace[h].ev # "lock"

\* what does hold: the report is kept when no package of std met the
\* failed lock
ReportsNotLostOutsideStd ==
    (pc = "done" /\ FailedLocks # {} /\ \A i \in FailedLocks : trace[i].key[1] # std_sym) =>
        CircularReports(messages) # {}

\* std.env uses std.textio, which uses work.env: the lock of env failed
\* during the analysis on demand of textio, and the finished pass reports
\* no circular dependency
StdReportLost ==
    /\ pc = "done" /\ FailedLocks # {} /\ CircularReports(messages) = {}
    /\ CircularReports(ignored) # {}
    /\ \E m \in 1..Len(messages) : messages[m].msg = MsgNoDecl /\ messages[m].arg = work_sym

(***************************************************************************)
(* The diagnostics and the order of the packages                           *)
(***************************************************************************)
Diagnostics(sink) == {sink[m] : m \in 1..Len(sink)}

BothRunsDone == pc = "done" /\ IsSome(earlier)

\* C39: the set of diagnostics is a function of the design root alone: two
\* runs over the same libraries that differ only in the order in which the
\* packages of a library are visited give the same set of diagnostics,
\* also when the packages depend on each other cyclically.
C39_DiagnosticsIndependentOfOrder ==
    BothRunsDone => Diagnostics(messages) = Diagnostics(earlier[1])

\* what does hold: the two runs agree when no lock attempt failed
SameDiagnosticsWithoutCycle ==
    (BothRunsDone /\ FailedLocks = {}) => Diagnostics(messages) = Diagnostics(earlier[1])

\* pkg1 and pkg2 use each other: the run that visits pkg1 first reports
\* pkg1 at the use clause of pkg2, the other run pkg2 at the use clause of
\* pkg1
ReportFollowsOrder ==
    /\ BothRunsDone /\ Len(messages) = 1 /\ Len(earlier[1]) = 1
    /\ messages[1].msg = MsgCircularUsing /\ earlier[1][1].msg = MsgCircularUsing
    /\ messages[1].arg = "pkg1" /\ messages[1].pos.unit = "pkg2"
    /\ earlier[1][1].arg = "pkg2" /\ earlier[1][1].pos.unit = "pkg1"

(***************************************************************************)
(* The inlining of context references                                      *)
(***************************************************************************)
\* the calls of analyze_context_clause that wait for the items of a
\* referenced context
Inlining == {i \in 1..Len(stack) :
                stack[i].fn = "analyze_context_clause" /\ stack[i].pc = "inlined"}

NumContexts == Cardinality(UNION {{<<root[n].name, c>> : c \in 1..Len(root[n].contexts)} :
                                     n \in 1..Len(root)})

\* the context declarations whose items the active calls go through
InlinedContexts == {stack[i + 1].base.unit : i \in {k \in Inlining : k < Len(stack)}}

\* C40: analyze_context_clause terminates for every finite set of context
\* declarations, a context that refers to itself and contexts that refer to
\* each other included: the inlining of context references nests no deeper
\* than there are context declarations and never exhausts the stack.
C40_ContextInliningTerminates ==
    /\ Cardinality(Inlining) <= NumContexts
    /\ pc = "overflow" => Inlining = {}

\* what does hold: as long as no context is inlined into itself the
\* inlining nests no deeper than there are context declarations
InliningBoundedWithoutCycle ==
    (\A i \in Inlining : \A j \in Inlining :
        (i < j /\ j < Len(stack)) => stack[i + 1].base.unit # stack[j + 1].base.unit)
      => Cardinality(Inlining) <= NumContexts

\* the one context of the library refers to itself and its inlining has
\* exhausted the stack
SelfReferenceOverflows ==
    /\ pc = "overflow" /\ NumContexts = 1 /\ MainLibrary.packages = <<>>
    /\ Cardinality(Inlining) > NumContexts
    /\ InlinedContexts = {"ctx1"}
    /\ locked = {} /\ messages = <<>>

\* a context that refers to a context without references is inlined and
\* the pass is done
ChainInlined ==
    /\ pc = "done" /\ NumContexts = 2
    /\ MainLibrary.contexts[2].items = <<>> /\ MainLibrary.contexts[1].items # <<>>

====
